---- MODULE Spec2Model ----
(***************************************************************************)
(* Quiz attempt lifecycle of the learning-platform backend: the routes     *)
(* POST /:quizId/attempt and POST /attempt/:attemptId/submit, the          *)
(* QuizAttempt model (unique index, pre-save hook, complete/abandon), the  *)
(* Quiz analytics and the Content quiz history they update.                *)
(*                                                                         *)
(* Every request is a process; each await of a handler is one atomic step  *)
(* on the document store, and the synchronous code after an await runs in  *)
(* the step of that await.                                                 *)
(***************************************************************************)
EXTENDS Integers, Sequences, FiniteSets, TLC

\* ------------------------------------------------------------------ bounds
MaxRequests == 3      \* requests of a behaviour with several users
MaxOwnRequests == 4   \* requests of a behaviour with one user
MaxClock == 2         \* the clock takes the values 1..MaxClock
NumUsers == 2         \* users 1..NumUsers
MaxAttemptsSetting == 2  \* quiz.settings.maxAttempts is drawn from 1..MaxAttemptsSetting
MaxCommunityRequests == 4  \* start and submit requests of the community routes
MaxInFlight == 2           \* of them, under way at the same time
CommunityMaxAttempts == 2  \* communityQuiz.maxAttempts
MaxMemberRequests == 4     \* join and leave requests of a behaviour
MaxGenerateRequests == 3   \* requests of POST /generate

Users == 1..NumUsers
ReqIds == 1..(IF MaxOwnRequests > MaxRequests THEN MaxOwnRequests ELSE MaxRequests)
None == 0             \* null: no document, no date

\* ------------------------------------------- JavaScript number arithmetic
\* IEEE 754 binary64: the significand has 53 bits (JavaScript Number).
Mantissa == 53
\* width of the limbs the multiplication by 100 works on
LimbBits == 16

RECURSIVE Pow2(_)
Pow2(k) == IF k = 0 THEN 1 ELSE 2 * Pow2(k - 1)

RECURSIVE Pow2Mod(_, _)
Pow2Mod(k, d) ==
  IF k = 0 THEN 1 % d
  ELSE LET h == Pow2Mod(k \div 2, d)
       IN (h * h * (IF k % 2 = 1 THEN 2 ELSE 1)) % d

FracBits(r, d, k) ==
  [i \in 1..k |-> IF 2 * ((r * Pow2Mod(i - 1, d)) % d) >= d THEN 1 ELSE 0]

FracRem(r, d, k) == (r * Pow2Mod(k, d)) % d

LeadZeros(r, d) == CHOOSE z \in 0..d : r * Pow2(z + 1) >= d /\ r * Pow2(z) < d

RECURSIVE IntBits(_)
IntBits(i) == IF i = 0 THEN <<>> ELSE IntBits(i \div 2) \o <<i % 2>>

RECURSIVE BitsInt(_)
BitsInt(b) == IF b = <<>> THEN 0 ELSE 2 * BitsInt(SubSeq(b, 1, Len(b) - 1)) + b[Len(b)]

Zeros(k) == [i \in 1..k |-> 0]

Strip(b) ==
  LET first == CHOOSE i \in 1..Len(b) : b[i] = 1 /\ \A j \in 1..(i - 1) : b[j] = 0
  IN SubSeq(b, first, Len(b))

Increment(b) ==
  IF \A i \in 1..Len(b) : b[i] = 1 THEN <<1>> \o Zeros(Len(b))
  ELSE LET z == CHOOSE i \in 1..Len(b) : b[i] = 0 /\ \A j \in (i + 1)..Len(b) : b[j] = 1
       IN [i \in 1..Len(b) |-> IF i < z THEN b[i] ELSE IF i = z THEN 1 ELSE 0]

Round53(bits, sticky, e) ==
  LET n    == Len(bits)
      mant == SubSeq(bits, 1, Mantissa)
      g    == bits[Mantissa + 1]
      rest == \E i \in (Mantissa + 2)..n : bits[i] = 1
      up   == g = 1 /\ (sticky \/ rest \/ mant[Mantissa] = 1)
      inc  == Increment(mant)
  IN IF ~up THEN [m |-> mant, e |-> e]
     ELSE IF Len(inc) > Mantissa THEN [m |-> SubSeq(inc, 1, Mantissa), e |-> e + 1]
     ELSE [m |-> inc, e |-> e]

Divide(n, d) ==
  LET i == n \div d
      r == n % d
  IN IF i > 0
     THEN LET ib == IntBits(i)
              k  == Mantissa + 1 - Len(ib)
          IN Round53(ib \o FracBits(r, d, k), FracRem(r, d, k) # 0, Len(ib) - 1)
     ELSE LET z  == LeadZeros(r, d)
              r0 == r * Pow2(z)
          IN Round53(FracBits(r0, d, Mantissa + 1), FracRem(r0, d, Mantissa + 1) # 0, -(z + 1))

Limb(b, j) == BitsInt(SubSeq(b, LimbBits * (j - 1) + 1, LimbBits * j))
LimbToBits(p) == [i \in 1..LimbBits |-> (p \div Pow2(LimbBits - i)) % 2]

Times100(x) ==
  LET b  == Zeros(4 * LimbBits - Mantissa) \o x.m
      B  == Pow2(LimbBits)
      p4 == Limb(b, 4) * 100
      p3 == Limb(b, 3) * 100 + p4 \div B
      p2 == Limb(b, 2) * 100 + p3 \div B
      p1 == Limb(b, 1) * 100 + p2 \div B
      p  == Strip(LimbToBits(p1) \o LimbToBits(p2 % B) \o LimbToBits(p3 % B) \o LimbToBits(p4 % B))
  IN Round53(p, FALSE, x.e - (Mantissa - 1) + (Len(p) - 1))

MathRound(x) ==
  IF x.e < -1 THEN 0
  ELSE IF x.e = -1 THEN 1
  ELSE BitsInt(SubSeq(x.m, 1, x.e + 1)) + x.m[x.e + 2]

\* Math.round((n / d) * 100) for integers n >= 0, d > 0, as JavaScript computes
\* it: n / d rounded to a double, times 100 rounded to a double, then rounded
\* half up to an integer.
JsPercent(n, d) == IF n = 0 THEN 0 ELSE MathRound(Times100(Divide(n, d)))

\* Math.round(a / b) for integers a >= 0, b > 0: one correctly rounded
\* division, so the result is the exact quotient rounded half up.
RoundDiv(a, b) == (2 * a + b) \div (2 * b)

\* String.prototype.toLowerCase on the answer strings of the model
toLowerCase(s) ==
  CASE s = "True" -> "true"
    [] s = "TRUE" -> "true"
    [] s = "False" -> "false"
    [] s = "FALSE" -> "false"
    [] s = "Paris" -> "paris"
    [] OTHER -> s

RECURSIVE SumSeq(_)
SumSeq(s) == IF s = <<>> THEN 0 ELSE s[1] + SumSeq(Tail(s))

Max(S) == CHOOSE x \in S : \A y \in S : y <= x

VARIABLES
  attempts,   \* the QuizAttempt collection: sequence of documents, _id = index
  quiz,       \* the Quiz document
  content,    \* the Content document the quiz was generated from
  req,        \* the requests: handler position, locals and response
  issued,     \* number of requests issued so far
  clock,      \* Date.now()
  lastStart,  \* per user: attempt id of the last successful start response,
              \* None once an attempt of the user changed status (history)
  communityQuiz,      \* the CommunityQuiz document
  communityAttempts,  \* the CommunityQuizAttempt collection, _id = index
  communityMembers,   \* users with an active CommunityMember document
  communityReq,       \* start and submit requests of the community routes
  communityIssued,    \* number of community requests issued so far
  leaderboardReq,     \* the leaderboard request under way or answered last
  community,          \* the Community document
  formerMembers,      \* users with a CommunityMember document that is not active
  memberReq,          \* join and leave requests of the community routes
  quizzes,            \* the Quiz documents created by POST /generate, _id = QuizId + index
  generateReq,        \* the requests of POST /generate
  maintenance         \* deleteContent and cleanupInactiveData: their positions

memberVars == <<community, formerMembers, memberReq>>

communityVars ==
  <<communityQuiz, communityAttempts, communityMembers, communityReq, communityIssued,
    leaderboardReq, memberVars>>

generateVars == <<quizzes, generateReq>>

quizVars ==
  <<attempts, quiz, content, req, issued, lastStart, maintenance, generateVars>>

vars ==
  <<attempts, quiz, content, req, issued, clock, lastStart, communityVars, maintenance,
    generateVars>>

\* ---------------------------------------------------------------- documents
QuizId == 1
ContentId == 1

\* A question of quizSchema.questions; its id is its position in the list.
Question(type, options, correctAnswer, points) ==
  [type |-> type, options |-> options, correctAnswer |-> correctAnswer, points |-> points]

Option(text, isCorrect) == [text |-> text, isCorrect |-> isCorrect]

MultipleChoice(points) ==
  Question("multiple-choice", <<Option("A", TRUE), Option("B", FALSE)>>, "A", points)

TrueFalse(points) == Question("true-false", <<>>, "true", points)

ShortAnswer(points) == Question("short-answer", <<>>, "paris", points)

\* A quiz with a question of each graded type
GradeQuestions == <<MultipleChoice(1), TrueFalse(2), ShortAnswer(1)>>

\* The quiz of the concurrency specification: two questions, 1 and 2 points.
SmallQuestions == <<MultipleChoice(1), TrueFalse(2)>>

\* The quiz of the scoring specification: 40 points, of which 23 can be earned.
ScoreQuestions ==
  <<MultipleChoice(10), MultipleChoice(10), TrueFalse(3), MultipleChoice(10),
    MultipleChoice(7)>>

\* quizSchema.questions.points: max
MaxQuestionPoints == 10

PointsTotal(questions) == SumSeq([i \in 1..Len(questions) |-> questions[i].points])

\* JsPercent on the points the two quizzes can yield (a submission may earn the
\* points of one question twice), computed once.
PercentTable ==
  LET totals == {PointsTotal(SmallQuestions), PointsTotal(ScoreQuestions),
                 PointsTotal(GradeQuestions)}
      pairs  == {p \in (0..(Max(totals) + MaxQuestionPoints)) \X totals :
                   p[1] <= p[2] + MaxQuestionPoints}
  IN [p \in pairs |-> JsPercent(p[1], p[2])] @@ <<>>

\* quizSchema: settings and analytics defaults; a generated quiz is published.
NewQuiz(questions, maxAttempts, passingScore) ==
  [ exists    |-> TRUE,      \* the document is in the collection
    isActive  |-> TRUE,
    status    |-> "published",
    userId    |-> 1,
    contentId |-> ContentId,
    questions |-> questions,
    settings  |-> [maxAttempts |-> maxAttempts, passingScore |-> passingScore,
                   allowRetakes |-> TRUE],
    analytics |-> [totalAttempts |-> 0, averageScore |-> 0, bestScore |-> 0,
                   passRate |-> 0, lastTaken |-> None] ]

\* databaseService.createQuiz without questions: the status defaults to draft,
\* which the pre-save check of the questions lets through.
EmptyQuiz == [NewQuiz(<<>>, 3, 70) EXCEPT !.status = "draft"]

\* quizSchema.virtual('totalPoints')
totalPoints(q) == PointsTotal(q.questions)

\* contentSchema.quizHistory defaults, after quiz generation
NewContent ==
  [ exists |-> TRUE,         \* the document is in the collection
    isActive |-> TRUE,
    userId |-> 1,
    aiSummary |-> TRUE,      \* content.aiSummary.sections is there
    hasQuiz |-> TRUE,        \* quizHistory.hasQuiz
    quizId |-> QuizId,       \* quizHistory.quizId
    v |-> 0,
    quizHistory |-> [totalAttempts |-> 0, bestScore |-> 0, lastAttempt |-> None,
                     isPassed |-> FALSE, attempts |-> <<>>] ]

\* quizAttemptSchema defaults (setDefaultsOnInsert) around the upserted fields
NewAttempt(data) ==
  [ quizId        |-> data.quizId,
    userId        |-> data.userId,
    attemptNumber |-> data.attemptNumber,
    maxPoints     |-> data.maxPoints,
    startedAt     |-> data.startedAt,
    status        |-> data.status,
    answers       |-> <<>>,
    score         |-> 0,
    totalPoints   |-> 0,
    passed        |-> FALSE,
    completedAt   |-> None,
    timeSpent     |-> 0,
    aiSummary     |-> FALSE,
    v             |-> 0 ]

NoData ==
  [quizId |-> None, userId |-> None, attemptNumber |-> 0, maxPoints |-> 0,
   startedAt |-> None, status |-> "none"]

NoAttempt == NewAttempt(NoData)

AttemptIds == 1..Len(attempts)

\* QuizAttempt.find({quizId, userId, status: 'in-progress'})
InProgress(u) ==
  {a \in AttemptIds : attempts[a].quizId = QuizId /\ attempts[a].userId = u
                      /\ attempts[a].status = "in-progress"}

\* QuizAttempt.countDocuments({quizId, userId, status: 'completed'})
CountCompleted(u) ==
  Cardinality({a \in AttemptIds : attempts[a].quizId = QuizId /\ attempts[a].userId = u
                                  /\ attempts[a].status = "completed"})

\* QuizAttempt.countDocuments({quizId, userId})
CountAll(u) ==
  Cardinality({a \in AttemptIds : attempts[a].quizId = QuizId /\ attempts[a].userId = u})

\* A collection without the unique index: no write collides.
NoUniqueIndex(self, q, u, n) == FALSE

\* The unique index {quizId, userId, attemptNumber}: writing (q, u, n) into the
\* document `self` (None for an insert) collides with another document.
DuplicateKey(self, q, u, n) ==
  \E a \in AttemptIds :
    a # self /\ attempts[a].quizId = q /\ attempts[a].userId = u
    /\ attempts[a].attemptNumber = n

\* ----------------------------------------------------------------- requests
NoResponse ==
  [code |-> "none", attemptId |-> None, attemptNumber |-> 0, isResumed |-> FALSE,
   score |-> 0, passed |-> FALSE, aiSummary |-> FALSE, canRetake |-> FALSE]

NoRequest ==
  [ kind |-> "none", pc |-> "idle", user |-> None,
    attemptId |-> None, answers |-> <<>>,       \* submit: req.params, req.body
    attemptData |-> NoData,                     \* start: the upserted fields
    attempt |-> NoAttempt,                      \* submit: the loaded attempt
    loaded |-> NewQuiz(<<>>, 1, 0).analytics,   \* submit: quiz.analytics as loaded
    analytics |-> NewQuiz(<<>>, 1, 0).analytics,\* submit: quiz.analytics as modified
    content |-> NewContent,                     \* submit: the loaded content
    quizSummary |-> FALSE,                      \* submit: quizSummary is not null
    prior |-> None, created |-> FALSE,          \* history, read by no action
    target |-> "none",                          \* history, read by no action
    error |-> "none", at |-> "none",            \* history: the error thrown, and where
    resp |-> NoResponse ]

Respond(r, resp) == [req EXCEPT ![r].pc = "done", ![r].resp = resp]

\* errorHandler: the response code of an error passed to next()
errorHandler(err) ==
  CASE err = "E11000" -> "DUPLICATE_FIELD_VALUE"
    [] err = "ValidationError" -> "VALIDATION_ERROR"
    [] err = "CastError" -> "RESOURCE_NOT_FOUND"
    [] OTHER -> "INTERNAL_SERVER_ERROR"

\* Quiz.findOne by userId, then by clerkUserId, then without owner: the quiz
\* is found when it is active, whoever owns it.
FindQuiz(u) ==
  /\ quiz.exists
  /\ \/ quiz.userId = u /\ quiz.isActive
     \/ quiz.userId = u /\ quiz.isActive
     \/ quiz.isActive

\* ------------------------------------------- POST /:quizId/attempt (start)
\* completedAttempts >= quiz.settings.maxAttempts
AttemptLimitReached(completedAttempts) ==
  completedAttempts >= quiz.settings.maxAttempts

\* attemptData, built after the two counts
AttemptData(u, totalAttempts) ==
  [ quizId        |-> QuizId,
    userId        |-> u,
    attemptNumber |-> totalAttempts + 1,
    maxPoints     |-> totalPoints(quiz),
    startedAt     |-> clock,
    status        |-> "in-progress" ]

\* The update half of findOneAndUpdate: $set of every field of attemptData
\* on the matched document.
SetAttemptData(doc, data) ==
  [doc EXCEPT !.quizId = data.quizId, !.userId = data.userId,
              !.attemptNumber = data.attemptNumber, !.maxPoints = data.maxPoints,
              !.startedAt = data.startedAt, !.status = data.status]

StartResponse(a, n, resumed) ==
  [NoResponse EXCEPT !.code = "OK", !.attemptId = a, !.attemptNumber = n,
                     !.isResumed = resumed]

\* The request arrives and the handler looks the quiz up.
StartAttempt(u) ==
  /\ issued + 1 \in ReqIds
  /\ issued' = issued + 1
  /\ LET r == issued + 1
         new == [NoRequest EXCEPT !.kind = "start", !.user = u]
     IN req' = IF FindQuiz(u)
               THEN [req EXCEPT ![r] = [new EXCEPT !.pc = "findInProgress"]]
               ELSE [req EXCEPT ![r] = [new EXCEPT !.pc = "done",
                                                   !.resp.code = "QUIZ_NOT_FOUND"]]
  /\ UNCHANGED <<attempts, quiz, content, clock, lastStart, communityVars, maintenance,
                 generateVars>>

\* A handler without the lookup of the in-progress attempt
StartWithoutLookup(r) ==
  /\ req[r].kind = "start" /\ req[r].pc = "findInProgress"
  /\ req' = [req EXCEPT ![r].pc = "countCompleted", ![r].prior = lastStart[req[r].user]]
  /\ UNCHANGED <<attempts, quiz, content, issued, clock, lastStart, communityVars, maintenance,
                 generateVars>>

\* QuizAttempt.findOne({quizId, userId, status: 'in-progress'}): resume it.
StartFindInProgress(r) ==
  /\ req[r].kind = "start" /\ req[r].pc = "findInProgress"
  /\ LET u == req[r].user
     IN IF InProgress(u) # {}
        THEN \E a \in InProgress(u) :
               /\ req' = [Respond(r, StartResponse(a, attempts[a].attemptNumber, TRUE))
                            EXCEPT ![r].prior = lastStart[u]]
               /\ lastStart' = [lastStart EXCEPT ![u] = a]
        ELSE /\ req' = [req EXCEPT ![r].pc = "countCompleted", ![r].prior = lastStart[u]]
             /\ UNCHANGED lastStart
  /\ UNCHANGED <<attempts, quiz, content, issued, clock, communityVars, maintenance,
                 generateVars>>

\* countDocuments of the completed attempts, and the attempt limit
StartCountCompleted(r) ==
  /\ req[r].kind = "start" /\ req[r].pc = "countCompleted"
  /\ req' = IF AttemptLimitReached(CountCompleted(req[r].user))
            THEN Respond(r, [NoResponse EXCEPT !.code = "MAX_ATTEMPTS_REACHED"])
            ELSE [req EXCEPT ![r].pc = "countTotal"]
  /\ UNCHANGED <<attempts, quiz, content, issued, clock, lastStart, communityVars, maintenance,
                 generateVars>>

\* countDocuments of all attempts; attemptData is built from the count.
StartCountTotal(r) ==
  /\ req[r].kind = "start" /\ req[r].pc = "countTotal"
  /\ req' = [req EXCEPT ![r].pc = "upsert",
                        ![r].attemptData = AttemptData(req[r].user, CountAll(req[r].user))]
  /\ UNCHANGED <<attempts, quiz, content, issued, clock, lastStart, communityVars, maintenance,
                 generateVars>>

\* findOneAndUpdate(..., {upsert: true, new: true}): a matching in-progress
\* document is updated in place; without a match the insert follows.  Either
\* write fails with E11000 when it breaks the unique index.
StartUpsert(r) ==
  /\ req[r].kind = "start" /\ req[r].pc = "upsert"
  /\ LET u == req[r].user
         data == req[r].attemptData
     IN IF InProgress(u) # {}
        THEN \E a \in InProgress(u) :
               IF DuplicateKey(a, data.quizId, data.userId, data.attemptNumber)
               THEN /\ req' = [req EXCEPT ![r].pc = "catch"]
                    /\ UNCHANGED <<attempts, lastStart>>
               ELSE /\ attempts' = [attempts EXCEPT ![a] = SetAttemptData(@, data)]
                    /\ req' = Respond(r, StartResponse(a, data.attemptNumber, FALSE))
                    /\ lastStart' = [lastStart EXCEPT ![u] = a]
        ELSE /\ req' = [req EXCEPT ![r].pc = "insert"]
             /\ UNCHANGED <<attempts, lastStart>>
  /\ UNCHANGED <<quiz, content, issued, clock, communityVars, maintenance, generateVars>>

\* The insert half of the upsert: two upserts that both found no match both
\* insert, and only the unique index can stop the second.
StartInsert(r) ==
  /\ req[r].kind = "start" /\ req[r].pc = "insert"
  /\ LET u == req[r].user
         data == req[r].attemptData
     IN IF DuplicateKey(None, data.quizId, data.userId, data.attemptNumber)
        THEN /\ req' = [req EXCEPT ![r].pc = "catch"]
             /\ UNCHANGED <<attempts, lastStart>>
        ELSE /\ attempts' = Append(attempts, NewAttempt(data))
             /\ req' = [Respond(r, StartResponse(Len(attempts) + 1, data.attemptNumber, FALSE))
                          EXCEPT ![r].created = TRUE]
             /\ lastStart' = [lastStart EXCEPT ![u] = Len(attempts) + 1]
  /\ UNCHANGED <<quiz, content, issued, clock, communityVars, maintenance, generateVars>>

\* catch (duplicateError): find the in-progress attempt again, else rethrow.
StartCatch(r) ==
  /\ req[r].kind = "start" /\ req[r].pc = "catch"
  /\ LET u == req[r].user
     IN IF InProgress(u) # {}
        THEN \E a \in InProgress(u) :
               /\ req' = Respond(r, StartResponse(a, attempts[a].attemptNumber, TRUE))
               /\ lastStart' = [lastStart EXCEPT ![u] = a]
        ELSE /\ req' = Respond(r, [NoResponse EXCEPT !.code = errorHandler("E11000")])
             /\ UNCHANGED lastStart
  /\ UNCHANGED <<attempts, quiz, content, issued, clock, communityVars, maintenance,
                 generateVars>>

\* ------------------------------------ POST /attempt/:attemptId/submit
\* The answer to question q that the grading accepts, and one it rejects.
RightAnswer(q) ==
  CASE quiz.questions[q].type = "multiple-choice" -> "A"
    [] quiz.questions[q].type = "true-false" -> "TRUE"
    [] OTHER -> "Paris"
WrongAnswer(q) ==
  IF quiz.questions[q].type = "multiple-choice" THEN "B" ELSE "false"

Answer(q, text) == [questionId |-> q, userAnswer |-> text]

QuestionIds == 1..Len(quiz.questions)

\* One answer per question, right for the questions of S and wrong for the rest
AnswersFor(S) ==
  [q \in QuestionIds |-> Answer(q, IF q \in S THEN RightAnswer(q) ELSE WrongAnswer(q))]

\* A question id that is not in the quiz
BogusAnswers == <<Answer(1, RightAnswer(1)), Answer(Len(quiz.questions) + 1, "A")>>

\* The first question answered twice
DuplicateAnswers == <<Answer(1, RightAnswer(1))>> \o AnswersFor(QuestionIds)

\* req.body.answers
Submissions ==
  {AnswersFor(S) : S \in SUBSET QuestionIds} \cup {BogusAnswers, DuplicateAnswers}

\* quiz.questions.id(questionId)
QuestionFound(questionId) == questionId \in QuestionIds

\* isCorrect of one answer, by question type
isCorrect(question, userAnswer) ==
  IF question.type = "multiple-choice"
  THEN \E i \in 1..Len(question.options) :
         /\ question.options[i].isCorrect
         /\ \A j \in 1..(i - 1) : ~question.options[j].isCorrect
         /\ question.options[i].text = userAnswer
  ELSE IF question.type = "true-false"
  THEN toLowerCase(question.correctAnswer) = toLowerCase(userAnswer)
  ELSE FALSE

\* answers.map(...): the processed answer
ProcessAnswer(answer) ==
  LET question == quiz.questions[answer.questionId]
      correct  == isCorrect(question, answer.userAnswer)
  IN [ questionId |-> answer.questionId,
       userAnswer |-> answer.userAnswer,
       isCorrect  |-> correct,
       points     |-> IF correct THEN question.points ELSE 0 ]

processedAnswers(answers) == [i \in 1..Len(answers) |-> ProcessAnswer(answers[i])]

\* answers.reduce((sum, answer) => sum + answer.points, 0)
PointsOf(answers) == SumSeq([i \in 1..Len(answers) |-> answers[i].points])

\* Math.round((0 / 0) * 100): not a number
NaN == -1

\* attempt.score = Math.round((totalPoints / maxPoints) * 100); without
\* questions no answer passes the question lookup, so totalPoints is 0 then.
Score(points, maxPoints) ==
  IF maxPoints = 0 THEN NaN ELSE PercentTable[<<points, maxPoints>>]

\* attempt.passed = attempt.score >= quiz.settings.passingScore
Passed(score) == score # NaN /\ score >= quiz.settings.passingScore

\* A filter without the status: {_id, userId}
SubmitFilterAnyStatus(a, u) ==
  /\ a \in AttemptIds
  /\ attempts[a].userId = u

\* The filter of the submit route's findOne: {_id, userId, status: 'in-progress'}
SubmitFilter(a, u) ==
  /\ a \in AttemptIds
  /\ attempts[a].userId = u
  /\ attempts[a].status = "in-progress"

\* The handler's changes to the loaded attempt before attempt.save()
Scored(attempt, answers) ==
  LET processed == processedAnswers(answers)
      score     == Score(PointsOf(processed), totalPoints(quiz))
  IN [attempt EXCEPT !.answers = processed,
                     !.status = "completed",
                     !.completedAt = clock,
                     !.timeSpent = clock - attempt.startedAt,
                     !.score = score,
                     !.passed = Passed(score)]

\* quizAttemptSchema.pre('save'): the answers were modified
PreSave(attempt) ==
  LET total == PointsOf(attempt.answers)
  IN [attempt EXCEPT !.totalPoints = total,
                     !.score = IF attempt.maxPoints > 0
                               THEN Score(total, attempt.maxPoints)
                               ELSE attempt.score]

\* Schema validation of the saved attempt: score has min 0 and max 100.
Valid(attempt) == attempt.score # NaN /\ attempt.score >= 0 /\ attempt.score <= 100

\* Mongoose versioning: a save that sets an array carries {__v: <loaded>} in
\* its filter and increments __v.
VersionMatches(stored, local) == stored.v = local.v

\* The paths attempt.save() writes after the handler's changes
SaveScored(stored, local) ==
  [stored EXCEPT !.answers = local.answers, !.status = local.status,
                 !.completedAt = local.completedAt, !.timeSpent = local.timeSpent,
                 !.score = local.score, !.passed = local.passed,
                 !.totalPoints = local.totalPoints, !.v = local.v + 1]

SubmitResponse(code) == [NoResponse EXCEPT !.code = code]

\* The handler's catch: next(error), answered by errorHandler
Throw(r, err) ==
  [req EXCEPT ![r].pc = "done", ![r].resp = SubmitResponse(errorHandler(err)),
              ![r].error = err, ![r].at = req[r].pc]

\* What the request addresses when it arrives (history)
Target(id, u) ==
  IF id \notin AttemptIds THEN "missing"
  ELSE IF attempts[id].userId # u THEN "foreign"
  ELSE attempts[id].status

\* The request arrives and the handler looks the attempt up.
SubmitAttempt(u, id, answers) ==
  /\ issued + 1 \in ReqIds
  /\ issued' = issued + 1
  /\ LET r == issued + 1
         new == [NoRequest EXCEPT !.kind = "submit", !.user = u, !.attemptId = id,
                                  !.answers = answers, !.target = Target(id, u)]
     IN req' = IF SubmitFilter(id, u)
               THEN [req EXCEPT ![r] = [new EXCEPT !.pc = "findQuiz",
                                                   !.attempt = attempts[id]]]
               ELSE [req EXCEPT ![r] = [new EXCEPT !.pc = "done",
                                                   !.resp.code = "ATTEMPT_NOT_FOUND"]]
  /\ UNCHANGED <<attempts, quiz, content, clock, lastStart, communityVars, maintenance,
                 generateVars>>

\* Quiz.findById, then the answers are processed and the attempt is scored.
SubmitFindQuiz(r) ==
  /\ req[r].kind = "submit" /\ req[r].pc = "findQuiz"
  /\ req' = IF ~quiz.exists
            THEN Respond(r, SubmitResponse("QUIZ_NOT_FOUND"))
            ELSE IF \E i \in 1..Len(req[r].answers) :
                      ~QuestionFound(req[r].answers[i].questionId)
            THEN Throw(r, "Error")
            ELSE [req EXCEPT ![r].pc = "saveAttempt",
                             ![r].loaded = quiz.analytics,
                             ![r].attempt = Scored(@, req[r].answers)]
  /\ UNCHANGED <<attempts, quiz, content, issued, clock, lastStart, communityVars, maintenance,
                 generateVars>>

\* await attempt.save(); then the handler counts one more attempt on the quiz.
SubmitSaveAttempt(r) ==
  /\ req[r].kind = "submit" /\ req[r].pc = "saveAttempt"
  /\ LET id    == req[r].attemptId
         local == PreSave(req[r].attempt)
     IN IF ~Valid(local)
        THEN /\ req' = Throw(r, "ValidationError")
             /\ UNCHANGED <<attempts, lastStart>>
        ELSE IF ~VersionMatches(attempts[id], local)
        THEN /\ req' = Throw(r, "VersionError")
             /\ UNCHANGED <<attempts, lastStart>>
        ELSE /\ attempts' = [attempts EXCEPT ![id] = SaveScored(@, local)]
             /\ lastStart' = [lastStart EXCEPT ![attempts[id].userId] = None]
             /\ req' = [req EXCEPT
                  ![r].pc = "findCompleted",
                  ![r].attempt = [local EXCEPT !.v = local.v + 1],
                  ![r].analytics = [req[r].loaded EXCEPT
                                      !.totalAttempts = req[r].loaded.totalAttempts + 1,
                                      !.lastTaken = clock]]
  /\ UNCHANGED <<quiz, content, issued, clock, communityVars, maintenance, generateVars>>

\* QuizAttempt.find({quizId, status: 'completed'}).select('score'): the
\* projection keeps score alone, so att.passed is undefined on its documents.
allCompletedAttempts ==
  LET ids == {a \in AttemptIds : attempts[a].quizId = QuizId
                                 /\ attempts[a].status = "completed"}
  IN [a \in ids |-> [score |-> attempts[a].score, passed |-> FALSE]]

RECURSIVE SumScores(_, _)
SumScores(docs, ids) ==
  IF ids = {} THEN 0
  ELSE LET a == CHOOSE x \in ids : TRUE
       IN docs[a].score + SumScores(docs, ids \ {a})

\* averageScore, bestScore and passRate over the completed attempts
Recomputed(analytics, docs) ==
  LET ids == DOMAIN docs
      n   == Cardinality(ids)
  IN IF n > 0
     THEN [analytics EXCEPT
             !.averageScore = RoundDiv(SumScores(docs, ids), n),
             !.bestScore = Max({docs[a].score : a \in ids}),
             !.passRate = JsPercent(Cardinality({a \in ids : docs[a].passed}), n)]
     ELSE analytics

SubmitFindCompleted(r) ==
  /\ req[r].kind = "submit" /\ req[r].pc = "findCompleted"
  /\ req' = [req EXCEPT ![r].pc = "saveQuiz",
                        ![r].analytics = Recomputed(@, allCompletedAttempts)]
  /\ UNCHANGED <<attempts, quiz, content, issued, clock, lastStart, communityVars, maintenance,
                 generateVars>>

\* quiz.save(): $set of the analytics paths the handler changed
SaveAnalytics(stored, loaded, new) ==
  [ totalAttempts |-> IF new.totalAttempts # loaded.totalAttempts
                      THEN new.totalAttempts ELSE stored.totalAttempts,
    averageScore  |-> IF new.averageScore # loaded.averageScore
                      THEN new.averageScore ELSE stored.averageScore,
    bestScore     |-> IF new.bestScore # loaded.bestScore
                      THEN new.bestScore ELSE stored.bestScore,
    passRate      |-> IF new.passRate # loaded.passRate
                      THEN new.passRate ELSE stored.passRate,
    lastTaken     |-> IF new.lastTaken # loaded.lastTaken
                      THEN new.lastTaken ELSE stored.lastTaken ]

\* quiz.save(): the update of a document that is no longer in the collection
\* matches nothing and save() throws DocumentNotFoundError.
SubmitSaveQuiz(r) ==
  /\ req[r].kind = "submit" /\ req[r].pc = "saveQuiz"
  /\ IF quiz.exists
     THEN /\ quiz' = [quiz EXCEPT
                        !.analytics = SaveAnalytics(@, req[r].loaded, req[r].analytics)]
          /\ req' = [req EXCEPT ![r].pc = "summary"]
     ELSE /\ req' = Throw(r, "DocumentNotFoundError")
          /\ UNCHANGED quiz
  /\ UNCHANGED <<attempts, content, issued, clock, lastStart, communityVars, maintenance,
                 generateVars>>

\* A handler whose summary call stands outside the inner try
SubmitSummaryUncaught(r) ==
  /\ req[r].kind = "submit" /\ req[r].pc = "summary"
  /\ \E failed \in BOOLEAN :
       req' = IF failed
              THEN Throw(r, "Error")
              ELSE [req EXCEPT ![r].pc = "saveSummary", ![r].quizSummary = TRUE,
                               ![r].attempt.aiSummary = TRUE]
  /\ UNCHANGED <<attempts, quiz, content, issued, clock, lastStart, communityVars, maintenance,
                 generateVars>>

\* await geminiService.generateQuizSummary(quiz, attempt): it returns the
\* summary or throws; the handler waits for it either way.
SubmitSummary(r) ==
  /\ req[r].kind = "submit" /\ req[r].pc = "summary"
  /\ \E failed \in BOOLEAN :
       req' = IF failed
              THEN [req EXCEPT ![r].pc = "findContent"]
              ELSE [req EXCEPT ![r].pc = "saveSummary", ![r].quizSummary = TRUE,
                               ![r].attempt.aiSummary = TRUE]
  /\ UNCHANGED <<attempts, quiz, content, issued, clock, lastStart, communityVars, maintenance,
                 generateVars>>

\* attempt.aiSummary = quizSummary; await attempt.save(), inside the try
SubmitSaveSummary(r) ==
  /\ req[r].kind = "submit" /\ req[r].pc = "saveSummary"
  /\ LET id == req[r].attemptId
     IN IF VersionMatches(attempts[id], req[r].attempt)
        THEN /\ attempts' = [attempts EXCEPT ![id].aiSummary = TRUE,
                                             ![id].v = req[r].attempt.v + 1]
             /\ req' = [req EXCEPT ![r].pc = "findContent",
                                   ![r].attempt.v = req[r].attempt.v + 1]
        ELSE /\ req' = [req EXCEPT ![r].pc = "findContent"]
             /\ UNCHANGED attempts
  /\ UNCHANGED <<quiz, content, issued, clock, lastStart, communityVars, maintenance,
                 generateVars>>

\* canRetake: quiz.settings.allowRetakes && attempt.attemptNumber < maxAttempts
canRetake(attempt) ==
  quiz.settings.allowRetakes /\ attempt.attemptNumber < quiz.settings.maxAttempts

\* res.json({success: true, ...}) at the end of the handler
SubmitSuccess(r) ==
  [NoResponse EXCEPT !.code = "OK",
                     !.attemptId = req[r].attemptId,
                     !.attemptNumber = req[r].attempt.attemptNumber,
                     !.score = req[r].attempt.score,
                     !.passed = req[r].attempt.passed,
                     !.aiSummary = req[r].quizSummary,
                     !.canRetake = canRetake(req[r].attempt)]

\* Content.findById(quiz.contentId); without the content the history is skipped
SubmitFindContent(r) ==
  /\ req[r].kind = "submit" /\ req[r].pc = "findContent"
  /\ req' = IF content.exists
            THEN [req EXCEPT ![r].pc = "saveContent", ![r].content = content]
            ELSE Respond(r, SubmitSuccess(r))
  /\ UNCHANGED <<attempts, quiz, content, issued, clock, lastStart, communityVars, maintenance,
                 generateVars>>

\* quizHistory keeps the last 10 attempts
HistoryLimit == 10

HistoryEntry(id, attempt) ==
  [attemptId |-> id, score |-> attempt.score, passed |-> attempt.passed,
   completedAt |-> attempt.completedAt]

\* content.save() after the handler's changes to the loaded content: the
\* scalar paths it changed are set, the new entry is pushed; when the list was
\* cut to its last 10 the whole array is set, under the version filter.
SaveHistory(stored, loaded, id, attempt) ==
  LET h == loaded.quizHistory
      pushed == Append(h.attempts, HistoryEntry(id, attempt))
      cut == Len(pushed) > HistoryLimit
  IN [ stored EXCEPT
       !.v = stored.v + 1,
       !.quizHistory =
         [ totalAttempts |-> h.totalAttempts + 1,
           lastAttempt   |-> IF clock # h.lastAttempt THEN clock
                             ELSE stored.quizHistory.lastAttempt,
           bestScore     |-> IF attempt.score > h.bestScore THEN attempt.score
                             ELSE stored.quizHistory.bestScore,
           isPassed      |-> IF attempt.passed /\ ~h.isPassed THEN TRUE
                             ELSE stored.quizHistory.isPassed,
           attempts      |-> IF cut
                             THEN SubSeq(pushed, Len(pushed) - HistoryLimit + 1, Len(pushed))
                             ELSE Append(stored.quizHistory.attempts,
                                         HistoryEntry(id, attempt)) ] ]

\* content.save(), then the response
SubmitSaveContent(r) ==
  /\ req[r].kind = "submit" /\ req[r].pc = "saveContent"
  /\ LET loaded == req[r].content
         cut == Len(loaded.quizHistory.attempts) + 1 > HistoryLimit
     IN IF ~content.exists
        THEN /\ req' = Throw(r, "DocumentNotFoundError")
             /\ UNCHANGED content
        ELSE IF cut /\ content.v # loaded.v
        THEN /\ req' = Throw(r, "VersionError")
             /\ UNCHANGED content
        ELSE /\ content' = SaveHistory(content, loaded, req[r].attemptId, req[r].attempt)
             /\ req' = Respond(r, SubmitSuccess(r))
  /\ UNCHANGED <<attempts, quiz, issued, clock, lastStart, communityVars, maintenance,
                 generateVars>>

\* ------------------------------------------ databaseService: deletions
NoMaintenance == [deleteContent |-> "idle", cleanup |-> "idle", pending |-> {}]

\* deleteContent(contentId, clerkUserId), called by DELETE /content/:id:
\* Content.findOneAndUpdate({_id, clerkUserId}, {isActive: false})
deleteContent(u) ==
  /\ maintenance.deleteContent = "idle"
  /\ IF content.exists /\ quiz.userId = u
     THEN /\ content' = [content EXCEPT !.isActive = FALSE]
          /\ maintenance' = [maintenance EXCEPT !.deleteContent = "related"]
     ELSE /\ maintenance' = [maintenance EXCEPT !.deleteContent = "done"]
          /\ UNCHANGED content
  /\ UNCHANGED <<attempts, quiz, req, issued, clock, lastStart, communityVars, generateVars>>

\* Quiz.updateMany({contentId, clerkUserId}, {isActive: false}): the soft delete
deleteContentRelated ==
  /\ maintenance.deleteContent = "related"
  /\ quiz' = IF quiz.exists THEN [quiz EXCEPT !.isActive = FALSE] ELSE quiz
  /\ quizzes' = [i \in DOMAIN quizzes |->
                   IF quizzes[i].exists THEN [quizzes[i] EXCEPT !.isActive = FALSE]
                   ELSE quizzes[i]]
  /\ maintenance' = [maintenance EXCEPT !.deleteContent = "done"]
  /\ UNCHANGED <<attempts, content, req, issued, clock, lastStart, communityVars,
                 generateReq>>

\* cleanupInactiveData(daysOld): Promise.all of the deleteMany calls, which
\* reach the database in any order.  The cutoff is the caller's; the model
\* takes every inactive document as older than it.
cleanupInactiveData ==
  /\ maintenance.cleanup = "idle"
  /\ maintenance' = [maintenance EXCEPT !.cleanup = "running",
                                        !.pending = {"Content", "Quiz"}]
  /\ UNCHANGED <<attempts, quiz, content, req, issued, clock, lastStart, communityVars,
                 generateVars>>

Cleaned(collection) ==
  [maintenance EXCEPT
     !.pending = @ \ {collection},
     !.cleanup = IF maintenance.pending = {collection} THEN "done" ELSE @]

\* Content.deleteMany({isActive: false, updatedAt: {$lt: cutoffDate}})
cleanupContent ==
  /\ "Content" \in maintenance.pending
  /\ content' = IF ~content.isActive THEN [content EXCEPT !.exists = FALSE] ELSE content
  /\ maintenance' = Cleaned("Content")
  /\ UNCHANGED <<attempts, quiz, req, issued, clock, lastStart, communityVars, generateVars>>

\* Quiz.deleteMany({isActive: false, updatedAt: {$lt: cutoffDate}})
cleanupQuiz ==
  /\ "Quiz" \in maintenance.pending
  /\ quiz' = IF ~quiz.isActive THEN [quiz EXCEPT !.exists = FALSE] ELSE quiz
  /\ quizzes' = [i \in DOMAIN quizzes |->
                   IF ~quizzes[i].isActive THEN [quizzes[i] EXCEPT !.exists = FALSE]
                   ELSE quizzes[i]]
  /\ maintenance' = Cleaned("Quiz")
  /\ UNCHANGED <<attempts, content, req, issued, clock, lastStart, communityVars,
                 generateReq>>

\* ------------------------------------------------------ process exit
\* SIGINT: the connection is closed and the process exits; the handlers under
\* way stop where they are and their requests get no response.
processExit ==
  /\ \E r \in ReqIds : req[r].pc \notin {"idle", "done"}
  /\ req' = [r \in ReqIds |->
               IF req[r].pc \in {"idle", "done"} THEN req[r]
               ELSE [req[r] EXCEPT !.pc = "done", !.error = "exit", !.at = req[r].pc]]
  /\ UNCHANGED <<attempts, quiz, content, issued, clock, lastStart, communityVars,
                 maintenance, generateVars>>

\* ------------------------------------- QuizAttempt.methods (model API)
\* attempt.complete(): status, completedAt and timeSpent are set and saved,
\* whatever the status was.
complete(a) ==
  /\ a \in AttemptIds
  /\ attempts' = [attempts EXCEPT ![a].status = "completed",
                                  ![a].completedAt = clock,
                                  ![a].timeSpent = clock - attempts[a].startedAt]
  /\ lastStart' = [lastStart EXCEPT ![attempts[a].userId] = None]
  /\ UNCHANGED <<quiz, content, req, issued, clock, communityVars, maintenance, generateVars>>

\* attempt.abandon(): status is set and saved, whatever the status was.
abandon(a) ==
  /\ a \in AttemptIds
  /\ attempts' = [attempts EXCEPT ![a].status = "abandoned"]
  /\ lastStart' = [lastStart EXCEPT ![attempts[a].userId] = None]
  /\ UNCHANGED <<quiz, content, req, issued, clock, communityVars, maintenance, generateVars>>

\* ------------------------------------------------------- community quizzes
\* communityQuizSchema: questions carry the index of the correct option;
\* maxAttempts 1..5, passingScore 0..100, status 'published' by default.
NewCommunityQuiz(questions, maxAttempts, passingScore) ==
  [ userId       |-> 1,
    type         |-> "public",
    accessCode   |-> "none",
    allowedUsers |-> {},
    questions    |-> questions,
    maxAttempts  |-> maxAttempts,
    passingScore |-> passingScore,
    status       |-> "published",
    isActive     |-> TRUE ]

\* correctAnswer of each question
CommunityQuestions == <<0, 1>>

\* communityQuizAttemptSchema: the defaults of a new attempt
NewCommunityAttempt(u, n, questions) ==
  [ userId         |-> u,
    attemptNumber  |-> n,
    answers        |-> [i \in 1..Len(questions) |->
                          [selectedAnswer |-> None - 1, isCorrect |-> FALSE]],
    score          |-> 0,
    percentage     |-> 0,
    totalTimeTaken |-> 0,
    status         |-> "in-progress",
    isPassed       |-> FALSE,
    completedAt    |-> None,
    createdAt      |-> clock,
    v              |-> 0 ]

NoCommunityAttempt == NewCommunityAttempt(None, 0, <<>>)

CommunityAttemptIds == 1..Len(communityAttempts)

NoCommunityResponse ==
  [ code |-> "none", attemptId |-> None, score |-> 0, percentage |-> 0,
    isPassed |-> FALSE, totalTimeTaken |-> 0, data |-> <<>> ]

NoCommunityRequest ==
  [ kind |-> "none", pc |-> "idle", user |-> None,
    attemptId |-> None, answers |-> <<>>, timeSpent |-> 0,  \* req.params, req.body
    accessCode |-> "none",                                  \* join-private: req.body
    existingAttempts |-> 0,                                 \* start: the count
    attempt |-> NoCommunityAttempt,                         \* the attempt under way
    resp |-> NoCommunityResponse ]

\* The number of start and submit requests under way
InFlight ==
  Cardinality({r \in DOMAIN communityReq : communityReq[r].pc \notin {"idle", "done"}})

CommunityRespond(r, resp) ==
  [communityReq EXCEPT ![r].pc = "done", ![r].resp = resp]

CommunityError(code) == [NoCommunityResponse EXCEPT !.code = code]

\* CommunityMember.findOne({userId, communityId, isActive: true})
membership(u) == u \in communityMembers

\* The unique index {userId, communityQuizId, attemptNumber}
CommunityDuplicateKey(u, n) ==
  \E a \in CommunityAttemptIds :
    communityAttempts[a].userId = u /\ communityAttempts[a].attemptNumber = n

\* --------------------------- POST /:communityId/quiz/:quizId/attempt (start)
CommunityStart(u) ==
  /\ communityIssued < MaxCommunityRequests
  /\ communityIssued' = communityIssued + 1
  /\ communityReq' = [communityReq EXCEPT ![communityIssued + 1] =
       [NoCommunityRequest EXCEPT !.kind = "start", !.user = u, !.pc = "membership"]]
  /\ UNCHANGED <<communityQuiz, communityAttempts, communityMembers, leaderboardReq,
                 clock, quizVars, memberVars>>

CommunityStartMembership(r) ==
  /\ communityReq[r].kind = "start" /\ communityReq[r].pc = "membership"
  /\ communityReq' =
       IF membership(communityReq[r].user)
       THEN [communityReq EXCEPT ![r].pc = "findQuiz"]
       ELSE CommunityRespond(r, CommunityError("NOT_A_MEMBER"))
  /\ UNCHANGED <<communityQuiz, communityAttempts, communityMembers, communityIssued,
                 leaderboardReq, clock, quizVars, memberVars>>

\* CommunityQuiz.findOne({_id, communityId, status: 'published', isActive: true})
CommunityStartFindQuiz(r) ==
  /\ communityReq[r].kind = "start" /\ communityReq[r].pc = "findQuiz"
  /\ communityReq' =
       IF communityQuiz.status = "published" /\ communityQuiz.isActive
       THEN [communityReq EXCEPT ![r].pc = "count"]
       ELSE CommunityRespond(r, CommunityError("QUIZ_NOT_FOUND"))
  /\ UNCHANGED <<communityQuiz, communityAttempts, communityMembers, communityIssued,
                 leaderboardReq, clock, quizVars, memberVars>>

\* existingAttempts = countDocuments({userId, communityQuizId}), then the limit
existingAttempts(u) ==
  Cardinality({a \in CommunityAttemptIds : communityAttempts[a].userId = u})

CommunityStartCount(r) ==
  /\ communityReq[r].kind = "start" /\ communityReq[r].pc = "count"
  /\ LET n == existingAttempts(communityReq[r].user)
     IN communityReq' =
          IF n >= communityQuiz.maxAttempts
          THEN CommunityRespond(r, CommunityError("MAX_ATTEMPTS_REACHED"))
          ELSE [communityReq EXCEPT ![r].pc = "save", ![r].existingAttempts = n]
  /\ UNCHANGED <<communityQuiz, communityAttempts, communityMembers, communityIssued,
                 leaderboardReq, clock, quizVars, memberVars>>

\* attempt.save() of the new attempt, then the response
CommunityStartSave(r) ==
  /\ communityReq[r].kind = "start" /\ communityReq[r].pc = "save"
  /\ LET u == communityReq[r].user
         n == communityReq[r].existingAttempts + 1
     IN IF CommunityDuplicateKey(u, n)
        THEN /\ communityReq' = CommunityRespond(r, CommunityError(errorHandler("E11000")))
             /\ UNCHANGED communityAttempts
        ELSE /\ communityAttempts' =
                  Append(communityAttempts,
                         NewCommunityAttempt(u, n, communityQuiz.questions))
             /\ communityReq' = CommunityRespond(r,
                  [NoCommunityResponse EXCEPT !.code = "OK",
                                              !.attemptId = Len(communityAttempts) + 1])
  /\ UNCHANGED <<communityQuiz, communityMembers, communityIssued, leaderboardReq,
                 clock, quizVars, memberVars>>

\* ------------- POST /:communityId/quiz/:quizId/attempt/:attemptId/submit
\* CommunityQuizAttempt.findOne({_id, userId, communityQuizId, status: 'in-progress'})
CommunitySubmitFilter(a, u) ==
  /\ a \in CommunityAttemptIds
  /\ communityAttempts[a].userId = u
  /\ communityAttempts[a].status = "in-progress"

CommunitySubmit(u, id, answers, timeSpent) ==
  /\ communityIssued < MaxCommunityRequests
  /\ communityIssued' = communityIssued + 1
  /\ communityReq' = [communityReq EXCEPT ![communityIssued + 1] =
       [NoCommunityRequest EXCEPT !.kind = "submit", !.user = u, !.pc = "findAttempt",
                                  !.attemptId = id, !.answers = answers,
                                  !.timeSpent = timeSpent]]
  /\ UNCHANGED <<communityQuiz, communityAttempts, communityMembers, leaderboardReq,
                 clock, quizVars, memberVars>>

CommunitySubmitFindAttempt(r) ==
  /\ communityReq[r].kind = "submit" /\ communityReq[r].pc = "findAttempt"
  /\ communityReq' =
       IF CommunitySubmitFilter(communityReq[r].attemptId, communityReq[r].user)
       THEN [communityReq EXCEPT ![r].pc = "findQuiz",
                                 ![r].attempt = communityAttempts[communityReq[r].attemptId]]
       ELSE CommunityRespond(r, CommunityError("ATTEMPT_NOT_FOUND"))
  /\ UNCHANGED <<communityQuiz, communityAttempts, communityMembers, communityIssued,
                 leaderboardReq, clock, quizVars, memberVars>>

\* scoredAnswers: the answer at index i is compared with the question at index i
scoredAnswers(questions, answers) ==
  [i \in 1..Len(answers) |->
     [selectedAnswer |-> answers[i],
      isCorrect      |-> i <= Len(questions) /\ questions[i] = answers[i]]]

correctAnswers(scored) ==
  Cardinality({i \in 1..Len(scored) : scored[i].isCorrect})

\* percentage = Math.round((correctAnswers / quiz.questions.length) * 100)
Percentage(correct, questions) == JsPercent(correct, Len(questions))

\* The percentages of the model's quiz, computed once
CommunityPercent ==
  [c \in 0..Len(CommunityQuestions) |-> Percentage(c, CommunityQuestions)] @@ <<>>

\* a || b of JavaScript on numbers: b when a is 0
OrElse(a, b) == IF a = 0 THEN b ELSE a

\* quiz.passingScore || 70
PassingThreshold(q) == OrElse(q.passingScore, 70)

\* isPassed = percentage >= (quiz.passingScore || 70)
IsPassed(percentage, q) == percentage >= PassingThreshold(q)

\* The attempt as the handler modifies it after CommunityQuiz.findById
CommunityScored(attempt, q, answers, timeSpent) ==
  LET scored  == scoredAnswers(q.questions, answers)
      correct == correctAnswers(scored)
      percent == CommunityPercent[correct]
  IN [attempt EXCEPT !.answers = scored,
                     !.score = correct,
                     !.percentage = percent,
                     \* timeSpent || the sum of the answers' timeSpent, each 0
                     !.totalTimeTaken = OrElse(timeSpent, 0),
                     !.isPassed = IsPassed(percent, q),
                     !.status = "completed",
                     !.completedAt = clock]

CommunitySubmitFindQuiz(r) ==
  /\ communityReq[r].kind = "submit" /\ communityReq[r].pc = "findQuiz"
  /\ communityReq' =
       [communityReq EXCEPT
          ![r].pc = "save",
          ![r].attempt = CommunityScored(communityReq[r].attempt, communityQuiz,
                                         communityReq[r].answers,
                                         communityReq[r].timeSpent)]
  /\ UNCHANGED <<communityQuiz, communityAttempts, communityMembers, communityIssued,
                 leaderboardReq, clock, quizVars, memberVars>>

\* attempt.save(): the answers array is replaced, so the update carries the
\* version the attempt was loaded with and increments it.
CommunitySubmitSave(r) ==
  /\ communityReq[r].kind = "submit" /\ communityReq[r].pc = "save"
  /\ LET id    == communityReq[r].attemptId
         local == communityReq[r].attempt
     IN IF ~VersionMatches(communityAttempts[id], local)
        THEN /\ communityReq' =
                  CommunityRespond(r, CommunityError(errorHandler("VersionError")))
             /\ UNCHANGED communityAttempts
        ELSE /\ communityAttempts' =
                  [communityAttempts EXCEPT ![id] = [local EXCEPT !.v = local.v + 1]]
             /\ communityReq' = CommunityRespond(r,
                  [NoCommunityResponse EXCEPT
                     !.code = "OK", !.attemptId = id, !.score = local.score,
                     !.percentage = local.percentage, !.isPassed = local.isPassed,
                     !.totalTimeTaken = local.totalTimeTaken])
  /\ UNCHANGED <<communityQuiz, communityMembers, communityIssued, leaderboardReq,
                 clock, quizVars, memberVars>>

\* ------------------------------------------------- POST /join-private
\* The request arrives with an access code.
JoinPrivate(u, code) ==
  /\ communityIssued < MaxCommunityRequests
  /\ communityIssued' = communityIssued + 1
  /\ communityReq' = [communityReq EXCEPT ![communityIssued + 1] =
       [NoCommunityRequest EXCEPT !.kind = "join-private", !.user = u,
                                  !.pc = "findQuiz", !.accessCode = code]]
  /\ UNCHANGED <<communityQuiz, communityAttempts, communityMembers, leaderboardReq,
                 clock, quizVars, memberVars>>

\* CommunityQuiz.findOne({accessCode, type: 'private', status: 'published',
\* isActive: true})
JoinPrivateFindQuiz(r) ==
  /\ communityReq[r].kind = "join-private" /\ communityReq[r].pc = "findQuiz"
  /\ communityReq' =
       IF /\ communityQuiz.accessCode = communityReq[r].accessCode
          /\ communityQuiz.type = "private"
          /\ communityQuiz.status = "published" /\ communityQuiz.isActive
       THEN [communityReq EXCEPT ![r].pc = "membership"]
       ELSE CommunityRespond(r, CommunityError("INVALID_ACCESS_CODE"))
  /\ UNCHANGED <<communityQuiz, communityAttempts, communityMembers, communityIssued,
                 leaderboardReq, clock, quizVars, memberVars>>

JoinPrivateMembership(r) ==
  /\ communityReq[r].kind = "join-private" /\ communityReq[r].pc = "membership"
  /\ communityReq' =
       IF membership(communityReq[r].user)
       THEN [communityReq EXCEPT ![r].pc = "allow"]
       ELSE CommunityRespond(r, CommunityError("NOT_A_MEMBER"))
  /\ UNCHANGED <<communityQuiz, communityAttempts, communityMembers, communityIssued,
                 leaderboardReq, clock, quizVars, memberVars>>

\* CommunityQuiz.findByIdAndUpdate(quiz._id, {$addToSet: {allowedUsers: userId}}),
\* skipped when the user is on the list already; then the response
JoinPrivateAllow(r) ==
  /\ communityReq[r].kind = "join-private" /\ communityReq[r].pc = "allow"
  /\ communityQuiz' = [communityQuiz EXCEPT !.allowedUsers = @ \cup {communityReq[r].user}]
  /\ communityReq' = CommunityRespond(r, [NoCommunityResponse EXCEPT !.code = "OK"])
  /\ UNCHANGED <<communityAttempts, communityMembers, communityIssued,
                 leaderboardReq, clock, quizVars, memberVars>>

\* ---------------------- GET /:communityId/quiz/:quizId/leaderboard
Min(S) == CHOOSE x \in S : \A y \in S : x <= y

\* $match {communityQuizId, communityId} and $group by userId
Grouped(u) == {a \in CommunityAttemptIds : communityAttempts[a].userId = u}

\* $group and $project: one entry for a user with attempts
Entry(u) ==
  [ userId      |-> u,
    score       |-> Max({communityAttempts[a].score : a \in Grouped(u)}),
    timeTaken   |-> Min({communityAttempts[a].totalTimeTaken : a \in Grouped(u)}),
    attempts    |-> Cardinality(Grouped(u)),
    lastAttempt |-> Max({communityAttempts[a].createdAt : a \in Grouped(u)}),
    rank        |-> 0 ]

Entries == {Entry(u) : u \in {v \in Users : Grouped(v) # {}}}

\* An order that ignores the time
ScoreOnly(a, b) == a.score >= b.score

\* $sort {score: -1, timeTaken: 1}: a may stand before b
SortOrder(a, b) ==
  \/ a.score > b.score
  \/ a.score = b.score /\ a.timeTaken <= b.timeTaken

\* The outcomes of the $sort: entries that compare equal come in any order
Sorted ==
  {s \in [1..Cardinality(Entries) -> Entries] :
     /\ \A i, j \in DOMAIN s : i < j => s[i] # s[j]
     /\ \A i, j \in DOMAIN s : i < j => SortOrder(s[i], s[j])}

LeaderboardLimit == 50

\* $limit 50
Limit(s) ==
  SubSeq(s, 1, IF Len(s) < LeaderboardLimit THEN Len(s) ELSE LeaderboardLimit)

\* leaderboard.map((entry, index) => ({...entry, rank: index + 1}))
leaderboardWithRank(s) == [i \in DOMAIN s |-> [s[i] EXCEPT !.rank = i]]

NoLeaderboardRequest == [pc |-> "idle", user |-> None, resp |-> NoCommunityResponse]

Leaderboard(u) ==
  /\ leaderboardReq.pc \in {"idle", "done"}
  /\ leaderboardReq' = [NoLeaderboardRequest EXCEPT !.pc = "membership", !.user = u]
  /\ UNCHANGED <<communityQuiz, communityAttempts, communityMembers, communityReq,
                 communityIssued, clock, quizVars, memberVars>>

LeaderboardMembership ==
  /\ leaderboardReq.pc = "membership"
  /\ leaderboardReq' =
       IF membership(leaderboardReq.user)
       THEN [leaderboardReq EXCEPT !.pc = "aggregate"]
       ELSE [leaderboardReq EXCEPT !.pc = "done",
                                   !.resp = CommunityError("NOT_A_MEMBER")]
  /\ UNCHANGED <<communityQuiz, communityAttempts, communityMembers, communityReq,
                 communityIssued, clock, quizVars, memberVars>>

LeaderboardAggregate ==
  /\ leaderboardReq.pc = "aggregate"
  /\ \E s \in Sorted :
       leaderboardReq' =
         [leaderboardReq EXCEPT !.pc = "done",
                                !.resp = [NoCommunityResponse EXCEPT
                                            !.code = "OK",
                                            !.data = leaderboardWithRank(Limit(s))]]
  /\ UNCHANGED <<communityQuiz, communityAttempts, communityMembers, communityReq,
                 communityIssued, clock, quizVars, memberVars>>

\* ------------------------------------------- the community specification
\* The submissions: the selected options and timeSpent of the request body
CommunitySubmissions ==
  {<<(<<0, 1>>), 90>>, <<(<<0, 1>>), 120>>, <<(<<0, 0>>), 90>>, <<(<<1, 0>>), 0>>}

CommunityReqIds == 1..MaxCommunityRequests

\* passingScore: 60 is the default of the schema, the schema admits 0..100
DefaultPassingScore == 60

PassingScores == {0, 50, DefaultPassingScore}

\* A private quiz as the create routes build it: an access code, and the
\* members of the community at that moment as allowedUsers.
PrivateQuiz(members) ==
  [NewCommunityQuiz(CommunityQuestions, CommunityMaxAttempts, DefaultPassingScore) EXCEPT
     !.type = "private", !.accessCode = "CODE", !.allowedUsers = members]

\* ------------------------------- POST /:communityId/join and /leave
MemberReqIds == 1..MaxMemberRequests

NoMemberRequest == [kind |-> "none", pc |-> "idle", user |-> None, code |-> "none"]

MemberRespond(r, code) == [memberReq EXCEPT ![r].pc = "done", ![r].code = code]

\* A community whose members are all active: memberCount counts them.
MemberInit ==
  /\ community = [exists |-> TRUE, memberCount |-> Cardinality(Users)]
  /\ formerMembers = {}
  /\ memberReq = [r \in MemberReqIds |-> NoMemberRequest]

\* The first free request slot
FreeMemberSlot(r) ==
  /\ memberReq[r].kind = "none"
  /\ \A o \in MemberReqIds : o < r => memberReq[o].kind # "none"

\* The unique index {userId, communityId} of CommunityMember: a document of
\* the user, active or not, is in the collection.
MemberDuplicateKey(u) == u \in communityMembers \cup formerMembers

\* The join request arrives: Community.findById(communityId)
Join(u) ==
  \E r \in MemberReqIds :
    /\ FreeMemberSlot(r)
    /\ memberReq' = [memberReq EXCEPT ![r] =
         [NoMemberRequest EXCEPT
            !.kind = "join", !.user = u,
            !.pc = IF community.exists THEN "findMember" ELSE "done",
            !.code = IF community.exists THEN "none" ELSE "COMMUNITY_NOT_FOUND"]]
    /\ UNCHANGED <<communityQuiz, communityAttempts, communityMembers, communityReq,
                   communityIssued, leaderboardReq, community, formerMembers,
                   clock, quizVars>>

\* CommunityMember.findOne({userId, communityId, isActive: true})
JoinFindMember(r) ==
  /\ memberReq[r].kind = "join" /\ memberReq[r].pc = "findMember"
  /\ memberReq' = IF membership(memberReq[r].user)
                  THEN MemberRespond(r, "ALREADY_MEMBER")
                  ELSE [memberReq EXCEPT ![r].pc = "save"]
  /\ UNCHANGED <<communityQuiz, communityAttempts, communityMembers, communityReq,
                 communityIssued, leaderboardReq, community, formerMembers,
                 clock, quizVars>>

\* membership.save(): the insert of a new CommunityMember document; a
\* duplicate key goes to next(error).
JoinSave(r) ==
  /\ memberReq[r].kind = "join" /\ memberReq[r].pc = "save"
  /\ IF MemberDuplicateKey(memberReq[r].user)
     THEN /\ memberReq' = MemberRespond(r, errorHandler("E11000"))
          /\ UNCHANGED communityMembers
     ELSE /\ communityMembers' = communityMembers \cup {memberReq[r].user}
          /\ memberReq' = [memberReq EXCEPT ![r].pc = "inc"]
  /\ UNCHANGED <<communityQuiz, communityAttempts, communityReq, communityIssued,
                 leaderboardReq, community, formerMembers, clock, quizVars>>

\* Community.findByIdAndUpdate(communityId, {$inc: {memberCount: by}})
IncMemberCount(by) ==
  IF community.exists
  THEN [community EXCEPT !.memberCount = community.memberCount + by]
  ELSE community

\* $inc of memberCount by 1, then the response
JoinInc(r) ==
  /\ memberReq[r].kind = "join" /\ memberReq[r].pc = "inc"
  /\ community' = IncMemberCount(1)
  /\ memberReq' = MemberRespond(r, "OK")
  /\ UNCHANGED <<communityQuiz, communityAttempts, communityMembers, communityReq,
                 communityIssued, leaderboardReq, formerMembers, clock, quizVars>>

\* The leave request arrives: CommunityMember.findOneAndUpdate(
\* {userId, communityId, isActive: true}, {isActive: false})
Leave(u) ==
  \E r \in MemberReqIds :
    /\ FreeMemberSlot(r)
    /\ IF membership(u)
       THEN /\ communityMembers' = communityMembers \ {u}
            /\ formerMembers' = formerMembers \cup {u}
            /\ memberReq' = [memberReq EXCEPT ![r] =
                 [NoMemberRequest EXCEPT !.kind = "leave", !.user = u, !.pc = "dec"]]
       ELSE /\ memberReq' = [memberReq EXCEPT ![r] =
                 [NoMemberRequest EXCEPT !.kind = "leave", !.user = u, !.pc = "done",
                                         !.code = "NOT_A_MEMBER"]]
            /\ UNCHANGED <<communityMembers, formerMembers>>
    /\ UNCHANGED <<communityQuiz, communityAttempts, communityReq, communityIssued,
                   leaderboardReq, community, clock, quizVars>>

\* $inc of memberCount by -1, then the response
LeaveDec(r) ==
  /\ memberReq[r].kind = "leave" /\ memberReq[r].pc = "dec"
  /\ community' = IncMemberCount(-1)
  /\ memberReq' = MemberRespond(r, "OK")
  /\ UNCHANGED <<communityQuiz, communityAttempts, communityMembers, communityReq,
                 communityIssued, leaderboardReq, formerMembers, clock, quizVars>>

CommunityInit ==
  /\ communityQuiz =
       NewCommunityQuiz(CommunityQuestions, CommunityMaxAttempts, DefaultPassingScore)
  /\ communityAttempts = <<>>
  /\ communityMembers = Users
  /\ MemberInit
  /\ communityReq = [r \in CommunityReqIds |-> NoCommunityRequest]
  /\ communityIssued = 0
  /\ leaderboardReq = NoLeaderboardRequest

\* The steps of the start and submit handlers that are under way
CommunitySteps ==
  \/ \E r \in CommunityReqIds : CommunityStartMembership(r)
  \/ \E r \in CommunityReqIds : CommunityStartFindQuiz(r)
  \/ \E r \in CommunityReqIds : CommunityStartCount(r)
  \/ \E r \in CommunityReqIds : CommunityStartSave(r)
  \/ \E r \in CommunityReqIds : CommunitySubmitFindAttempt(r)
  \/ \E r \in CommunityReqIds : CommunitySubmitFindQuiz(r)
  \/ \E r \in CommunityReqIds : CommunitySubmitSave(r)

\* Start and submit requests of the users `users`, at most `inFlight` of
\* them under way at the same time
CommunityArrivals(users, inFlight) ==
  /\ InFlight < inFlight
  /\ \/ \E u \in users : CommunityStart(u)
     \/ \E u \in users, id \in 1..(Len(communityAttempts) + 1),
           body \in CommunitySubmissions :
             CommunitySubmit(u, id, body[1], body[2])

\* The leaderboard route
LeaderboardSteps ==
  \/ \E u \in Users : Leaderboard(u)
  \/ LeaderboardMembership
  \/ LeaderboardAggregate

\* One member, requests that overlap
NextCommunity ==
  \/ CommunitySteps
  \/ CommunityArrivals({1}, MaxInFlight)

\* Every member, one start or submit request at a time, and the leaderboard
NextLeaderboard ==
  \/ CommunitySteps
  \/ CommunityArrivals(Users, 1)
  \/ LeaderboardSteps

\* A private quiz: start and submit requests of every member, and the
\* redeeming of access codes
NextPrivate ==
  \/ CommunitySteps
  \/ CommunityArrivals(Users, 1)
  \/ \E u \in Users, code \in {"CODE", "WRONG"} : JoinPrivate(u, code)
  \/ \E r \in CommunityReqIds : JoinPrivateFindQuiz(r)
  \/ \E r \in CommunityReqIds : JoinPrivateMembership(r)
  \/ \E r \in CommunityReqIds : JoinPrivateAllow(r)

\* ------------------------------------------------------------------- time
Tick ==
  /\ clock < MaxClock
  /\ clock' = clock + 1
  /\ UNCHANGED <<attempts, quiz, content, req, issued, lastStart, communityVars, maintenance,
                 generateVars>>

\* ------------------------------------------------------- POST /generate
GenerateReqIds == 1..MaxGenerateRequests

NoGenerateRequest ==
  [ kind |-> "none", pc |-> "idle", user |-> None,
    code |-> "none", isExisting |-> FALSE, data |-> None ]   \* the response

GenerateInit ==
  /\ quizzes = <<>>
  /\ generateReq = [r \in GenerateReqIds |-> NoGenerateRequest]

GenerateRespond(r, code, isExisting, data) ==
  [generateReq EXCEPT ![r].pc = "done", ![r].code = code,
                      ![r].isExisting = isExisting, ![r].data = data]

\* new Quiz({contentId, userId, ..., status: 'published'}), isActive by default
GeneratedQuiz(u) ==
  [exists |-> TRUE, isActive |-> TRUE, contentId |-> ContentId, userId |-> u,
   status |-> "published"]

\* The ids of the documents that Quiz.findOne({contentId, userId, isActive:
\* true}) matches
ActiveQuizzes(u) ==
  (IF /\ quiz.exists /\ quiz.isActive
      /\ quiz.contentId = ContentId /\ quiz.userId = u THEN {QuizId} ELSE {})
  \cup {QuizId + i : i \in {j \in DOMAIN quizzes :
                              /\ quizzes[j].exists /\ quizzes[j].isActive
                              /\ quizzes[j].contentId = ContentId
                              /\ quizzes[j].userId = u}}

\* The request arrives: Content.findOne({_id, $or: [{userId}, {clerkUserId}]})
\* and the test of content.aiSummary
Generate(u) ==
  \E r \in GenerateReqIds :
    /\ generateReq[r].kind = "none"
    /\ \A o \in GenerateReqIds : o < r => generateReq[o].kind # "none"
    /\ LET new == [NoGenerateRequest EXCEPT !.kind = "generate", !.user = u]
       IN generateReq' = [generateReq EXCEPT ![r] =
            IF ~(content.exists /\ content.userId = u)
            THEN [new EXCEPT !.pc = "done", !.code = "CONTENT_NOT_FOUND"]
            ELSE IF ~content.aiSummary
            THEN [new EXCEPT !.pc = "done", !.code = "CONTENT_NOT_PROCESSED"]
            ELSE [new EXCEPT !.pc = "findQuiz"]]
    /\ UNCHANGED <<attempts, quiz, content, req, issued, clock, lastStart,
                   communityVars, maintenance, quizzes>>

\* Quiz.findOne({contentId, userId, isActive: true}): the quiz that exists is
\* returned with isExisting: true.
GenerateFindQuiz(r) ==
  /\ generateReq[r].kind = "generate" /\ generateReq[r].pc = "findQuiz"
  /\ LET existing == ActiveQuizzes(generateReq[r].user)
     IN generateReq' =
          IF existing # {}
          THEN GenerateRespond(r, "OK", TRUE, Min(existing))
          ELSE [generateReq EXCEPT ![r].pc = "generate"]
  /\ UNCHANGED <<attempts, quiz, content, req, issued, clock, lastStart,
                 communityVars, maintenance, quizzes>>

\* geminiService.generateQuiz(...): the quiz data, or the error it throws
GenerateQuiz(r) ==
  /\ generateReq[r].kind = "generate" /\ generateReq[r].pc = "generate"
  /\ \/ generateReq' = [generateReq EXCEPT ![r].pc = "save"]
     \/ generateReq' = GenerateRespond(r, errorHandler("Error"), FALSE, None)
  /\ UNCHANGED <<attempts, quiz, content, req, issued, clock, lastStart,
                 communityVars, maintenance, quizzes>>

\* quiz.save(): the insert of the new Quiz document
GenerateSave(r) ==
  /\ generateReq[r].kind = "generate" /\ generateReq[r].pc = "save"
  /\ quizzes' = Append(quizzes, GeneratedQuiz(generateReq[r].user))
  /\ generateReq' = [generateReq EXCEPT ![r].pc = "saveContent",
                                        ![r].data = QuizId + Len(quizzes) + 1]
  /\ UNCHANGED <<attempts, quiz, content, req, issued, clock, lastStart,
                 communityVars, maintenance>>

\* content.quizHistory.hasQuiz and quizId are set, content.save(), then the
\* response with isExisting: false
GenerateSaveContent(r) ==
  /\ generateReq[r].kind = "generate" /\ generateReq[r].pc = "saveContent"
  /\ IF content.exists
     THEN /\ content' = [content EXCEPT !.hasQuiz = TRUE,
                                        !.quizId = generateReq[r].data]
          /\ generateReq' = GenerateRespond(r, "OK", FALSE, generateReq[r].data)
     ELSE /\ generateReq' =
               GenerateRespond(r, errorHandler("DocumentNotFoundError"), FALSE, None)
          /\ UNCHANGED content
  /\ UNCHANGED <<attempts, quiz, req, issued, clock, lastStart, communityVars,
                 maintenance, quizzes>>

\* ---------------------------------------------------------- specification
Init ==
  /\ attempts = <<>>
  /\ quiz \in {NewQuiz(SmallQuestions, n, 70) : n \in 1..MaxAttemptsSetting}
  /\ content = NewContent
  /\ req = [r \in ReqIds |-> NoRequest]
  /\ issued = 0
  /\ clock = 1
  /\ lastStart = [u \in Users |-> None]
  /\ maintenance = NoMaintenance
  /\ GenerateInit
  /\ CommunityInit

\* True when no upsert is between its match and its insert.  The database runs
\* an upsert as one operation: only another upsert of the same kind can fall
\* between the two halves (both find no match, then both insert).
Quiet == \A r \in ReqIds : req[r].pc # "insert"

\* The steps of the handlers that are under way
Steps ==
  \/ \E r \in ReqIds : StartUpsert(r)
  \/ \E r \in ReqIds : StartInsert(r)
  \/ Quiet /\ \E r \in ReqIds : StartFindInProgress(r)
  \/ Quiet /\ \E r \in ReqIds : StartCountCompleted(r)
  \/ Quiet /\ \E r \in ReqIds : StartCountTotal(r)
  \/ Quiet /\ \E r \in ReqIds : StartCatch(r)
  \/ Quiet /\ \E r \in ReqIds : SubmitFindQuiz(r)
  \/ Quiet /\ \E r \in ReqIds : SubmitSaveAttempt(r)
  \/ Quiet /\ \E r \in ReqIds : SubmitFindCompleted(r)
  \/ Quiet /\ \E r \in ReqIds : SubmitSaveQuiz(r)
  \/ Quiet /\ \E r \in ReqIds : SubmitSummary(r)
  \/ Quiet /\ \E r \in ReqIds : SubmitSaveSummary(r)
  \/ Quiet /\ \E r \in ReqIds : SubmitFindContent(r)
  \/ Quiet /\ \E r \in ReqIds : SubmitSaveContent(r)

\* Requests of the users `users`, at most `cap` of them, with answers from
\* `submissions`
Arrivals(users, submissions, cap) ==
  /\ Quiet
  /\ issued < cap
  /\ \/ \E u \in users : StartAttempt(u)
     \/ \E u \in users, id \in 1..(Len(attempts) + 1), answers \in submissions :
          SubmitAttempt(u, id, answers)

\* Every user, every kind of submission
Next ==
  \/ Steps
  \/ Arrivals(Users, Submissions, MaxRequests)
  \/ Quiet /\ Tick

Spec == Init /\ [][Next]_vars

\* One user (the owner of the quiz) and more requests
OwnSubmissions == {AnswersFor(QuestionIds), AnswersFor({})}

NextOwn ==
  \/ Steps
  \/ Arrivals({quiz.userId}, OwnSubmissions, MaxOwnRequests)

SpecOwn == Init /\ [][NextOwn]_vars

\* The routes and the methods of the model: code that holds an attempt
\* document may call complete() or abandon() on it.
NextMethods ==
  \/ Steps
  \/ Arrivals({quiz.userId}, OwnSubmissions, MaxRequests)
  \/ Quiet /\ \E a \in AttemptIds : complete(a)
  \/ Quiet /\ \E a \in AttemptIds : abandon(a)

SpecMethods == Init /\ [][NextMethods]_vars

\* The routes, the deletion of the content and the cleanup
DeleteSubmissions == {AnswersFor(QuestionIds), BogusAnswers}

NextDelete ==
  \/ Steps
  \/ Arrivals({quiz.userId}, DeleteSubmissions, MaxRequests)
  \/ Quiet /\ deleteContent(quiz.userId)
  \/ Quiet /\ deleteContentRelated
  \/ Quiet /\ cleanupInactiveData
  \/ Quiet /\ cleanupContent
  \/ Quiet /\ cleanupQuiz

InitDelete == Init /\ quiz.settings.maxAttempts = MaxAttemptsSetting

SpecDelete == InitDelete /\ [][NextDelete]_vars

\* The routes of the owner, and the exit of the process
NextExit ==
  \/ Steps
  \/ Arrivals({quiz.userId}, OwnSubmissions, MaxOwnRequests)
  \/ Quiet /\ processExit

SpecExit == InitDelete /\ [][NextExit]_vars

\* A quiz of 40 points, every submission
InitScore ==
  /\ attempts = <<>>
  /\ quiz = NewQuiz(ScoreQuestions, MaxAttemptsSetting, 70)
  /\ content = NewContent
  /\ req = [r \in ReqIds |-> NoRequest]
  /\ issued = 0
  /\ clock = 1
  /\ lastStart = [u \in Users |-> None]
  /\ maintenance = NoMaintenance
  /\ GenerateInit
  /\ CommunityInit

NextScore ==
  \/ Steps
  \/ Arrivals({quiz.userId}, Submissions, MaxRequests)

SpecScore == InitScore /\ [][NextScore]_vars

\* A quiz without questions, or the two-question quiz
InitEmpty ==
  /\ attempts = <<>>
  /\ quiz \in {EmptyQuiz, NewQuiz(SmallQuestions, MaxAttemptsSetting, 70)}
  /\ content = NewContent
  /\ req = [r \in ReqIds |-> NoRequest]
  /\ issued = 0
  /\ clock = 1
  /\ lastStart = [u \in Users |-> None]
  /\ maintenance = NoMaintenance
  /\ GenerateInit
  /\ CommunityInit

SpecEmpty == InitEmpty /\ [][NextOwn]_vars

\* A quiz with a multiple-choice, a true-false and a short-answer question
InitGrade ==
  /\ attempts = <<>>
  /\ quiz = NewQuiz(GradeQuestions, MaxAttemptsSetting, 70)
  /\ content = NewContent
  /\ req = [r \in ReqIds |-> NoRequest]
  /\ issued = 0
  /\ clock = 1
  /\ lastStart = [u \in Users |-> None]
  /\ maintenance = NoMaintenance
  /\ GenerateInit
  /\ CommunityInit

SpecGrade == InitGrade /\ [][NextScore]_vars

\* The community quiz, its attempts and its leaderboard
InitCommunity ==
  /\ attempts = <<>>
  /\ quiz = NewQuiz(SmallQuestions, MaxAttemptsSetting, 70)
  /\ content = NewContent
  /\ req = [r \in ReqIds |-> NoRequest]
  /\ issued = 0
  /\ clock = 1
  /\ lastStart = [u \in Users |-> None]
  /\ maintenance = NoMaintenance
  /\ GenerateInit
  /\ communityQuiz \in {NewCommunityQuiz(CommunityQuestions, CommunityMaxAttempts, p) :
                          p \in PassingScores}
  /\ communityAttempts = <<>>
  /\ communityMembers = Users
  /\ MemberInit
  /\ communityReq = [r \in CommunityReqIds |-> NoCommunityRequest]
  /\ communityIssued = 0
  /\ leaderboardReq = NoLeaderboardRequest

SpecCommunity == InitCommunity /\ [][NextCommunity]_vars

\* The community quiz as the routes create it, and its leaderboard
InitLeaderboard ==
  /\ attempts = <<>>
  /\ quiz = NewQuiz(SmallQuestions, MaxAttemptsSetting, 70)
  /\ content = NewContent
  /\ req = [r \in ReqIds |-> NoRequest]
  /\ issued = 0
  /\ clock = 1
  /\ lastStart = [u \in Users |-> None]
  /\ maintenance = NoMaintenance
  /\ GenerateInit
  /\ CommunityInit

SpecLeaderboard == InitLeaderboard /\ [][NextLeaderboard]_vars

\* A private quiz created when its owner was the only member; the other
\* users joined the community afterwards.
InitPrivate ==
  /\ attempts = <<>>
  /\ quiz = NewQuiz(SmallQuestions, MaxAttemptsSetting, 70)
  /\ content = NewContent
  /\ req = [r \in ReqIds |-> NoRequest]
  /\ issued = 0
  /\ clock = 1
  /\ lastStart = [u \in Users |-> None]
  /\ maintenance = NoMaintenance
  /\ GenerateInit
  /\ communityQuiz = PrivateQuiz({1})
  /\ communityAttempts = <<>>
  /\ communityMembers = Users
  /\ MemberInit
  /\ communityReq = [r \in CommunityReqIds |-> NoCommunityRequest]
  /\ communityIssued = 0
  /\ leaderboardReq = NoLeaderboardRequest

SpecPrivate == InitPrivate /\ [][NextPrivate]_vars

\* databaseService.updateQuiz(quizId, clerkUserId, updateData) with a status:
\* Quiz.findOneAndUpdate({_id, clerkUserId, isActive: true}, {status}); the
\* schema's enum keeps the status one of 'draft', 'published', 'archived'.
QuizStatuses == {"draft", "published", "archived"}

updateQuiz(status) ==
  /\ status \in QuizStatuses
  /\ quiz.exists /\ quiz.isActive
  /\ quiz.status # status
  /\ quiz' = [quiz EXCEPT !.status = status]
  /\ UNCHANGED <<attempts, content, req, issued, clock, lastStart, communityVars,
                 maintenance, generateVars>>

\* The routes of the owner, the change of the quiz's status and the soft
\* delete of the content
NextStatus ==
  \/ Steps
  \/ Arrivals({quiz.userId}, {AnswersFor(QuestionIds)}, MaxRequests)
  \/ Quiet /\ \E status \in QuizStatuses : updateQuiz(status)
  \/ Quiet /\ deleteContent(quiz.userId)
  \/ Quiet /\ deleteContentRelated

SpecStatus == InitDelete /\ [][NextStatus]_vars

\* The owner's requests, with half of the answers right or all of them
HistorySubmissions == {AnswersFor({1}), AnswersFor(QuestionIds)}

NextHistory ==
  \/ Steps
  \/ Arrivals({quiz.userId}, HistorySubmissions, MaxOwnRequests)

SpecHistory == InitDelete /\ [][NextHistory]_vars

\* The first question answered twice, right and then wrong, the others wrong
RepeatedAnswers == <<Answer(1, RightAnswer(1))>> \o AnswersFor({})

\* The owner's requests, with answers that name a question twice
RepeatSubmissions == {AnswersFor(QuestionIds), DuplicateAnswers, RepeatedAnswers}

NextRepeat ==
  \/ Steps
  \/ Arrivals({quiz.userId}, RepeatSubmissions, MaxRequests)

SpecRepeat == InitDelete /\ [][NextRepeat]_vars

\* A community as POST /create leaves it: its creator is the one member and
\* memberCount is 1.  The users join and leave.
InitMembers ==
  /\ attempts = <<>>
  /\ quiz = NewQuiz(SmallQuestions, MaxAttemptsSetting, 70)
  /\ content = NewContent
  /\ req = [r \in ReqIds |-> NoRequest]
  /\ issued = 0
  /\ clock = 1
  /\ lastStart = [u \in Users |-> None]
  /\ maintenance = NoMaintenance
  /\ GenerateInit
  /\ communityQuiz =
       NewCommunityQuiz(CommunityQuestions, CommunityMaxAttempts, DefaultPassingScore)
  /\ communityAttempts = <<>>
  /\ communityMembers = {1}
  /\ community = [exists |-> TRUE, memberCount |-> 1]
  /\ formerMembers = {}
  /\ memberReq = [r \in MemberReqIds |-> NoMemberRequest]
  /\ communityReq = [r \in CommunityReqIds |-> NoCommunityRequest]
  /\ communityIssued = 0
  /\ leaderboardReq = NoLeaderboardRequest

NextMembers ==
  \/ \E u \in Users : Join(u)
  \/ \E u \in Users : Leave(u)
  \/ \E r \in MemberReqIds : JoinFindMember(r)
  \/ \E r \in MemberReqIds : JoinSave(r)
  \/ \E r \in MemberReqIds : JoinInc(r)
  \/ \E r \in MemberReqIds : LeaveDec(r)

SpecMembers == InitMembers /\ [][NextMembers]_vars

\* A content without a quiz yet, processed or not; its owner and another user send
\* generate requests, and the content is deleted.
InitGenerate ==
  /\ attempts = <<>>
  /\ quiz = [NewQuiz(SmallQuestions, MaxAttemptsSetting, 70) EXCEPT !.exists = FALSE]
  /\ content \in {[NewContent EXCEPT !.hasQuiz = FALSE, !.quizId = None,
                                      !.aiSummary = processed] :
                     processed \in BOOLEAN}
  /\ req = [r \in ReqIds |-> NoRequest]
  /\ issued = 0
  /\ clock = 1
  /\ lastStart = [u \in Users |-> None]
  /\ maintenance = NoMaintenance
  /\ GenerateInit
  /\ CommunityInit

NextGenerate ==
  \/ \E u \in Users : Generate(u)
  \/ \E r \in GenerateReqIds : GenerateFindQuiz(r)
  \/ \E r \in GenerateReqIds : GenerateQuiz(r)
  \/ \E r \in GenerateReqIds : GenerateSave(r)
  \/ \E r \in GenerateReqIds : GenerateSaveContent(r)
  \/ deleteContent(content.userId)
  \/ deleteContentRelated

SpecGenerate == InitGenerate /\ [][NextGenerate]_vars

SuccessiveStartResumes ==
  \A r \in ReqIds :
    (req[r].kind = "start" /\ req[r].prior # None)
      => /\ req[r].pc = "done"
         /\ req[r].resp.code = "OK"
         /\ req[r].resp.attemptId = req[r].prior
         /\ req[r].resp.isResumed
         /\ ~req[r].created
         /\ req[r].attemptData = NoData

\* C2's case: after the answer to a start, a second start of the user was
\* answered, and the attempts of the user are still the one document.
SecondStartAnswered ==
  \E r \in ReqIds :
    /\ req[r].kind = "start" /\ req[r].prior # None /\ req[r].pc = "done"
    /\ CountAll(req[r].user) = 1

\* The attempt numbers of a user's attempts
AttemptNumbers(u) ==
  {attempts[a].attemptNumber : a \in {x \in AttemptIds : attempts[x].userId = u}}

\* C3: the attempt numbers of a (user, quiz) pair with k attempts are exactly
\* 1..k, without gaps or duplicates, also when attempts are started
\* concurrently.
AttemptNumbersAreSequential ==
  \A u \in Users : AttemptNumbers(u) = 1..CountAll(u)

\* A user whose completed attempts are below the limit of the quiz
Eligible(u) == ~AttemptLimitReached(CountCompleted(u))

\* C4: a start request of an eligible user is never answered with the
\* duplicate-key error of the unique index.
DuplicateKeyNeverSurfaces ==
  \A r \in ReqIds :
    (req[r].kind = "start" /\ req[r].resp.code = errorHandler("E11000"))
      => ~Eligible(req[r].user)

\* C5: a start that is answered with an attempt that was already in-progress
\* leaves that attempt's attemptNumber, startedAt and maxPoints as they were.
ResumeKeepsAttempt ==
  [][\A r \in ReqIds :
       (/\ req[r].kind = "start" /\ req[r].pc # "done"
        /\ req'[r].pc = "done" /\ req'[r].resp.code = "OK"
        /\ req'[r].resp.attemptId \in AttemptIds
        /\ attempts[req'[r].resp.attemptId].status = "in-progress")
         => LET a == req'[r].resp.attemptId
            IN /\ attempts'[a].attemptNumber = attempts[a].attemptNumber
               /\ attempts'[a].startedAt = attempts[a].startedAt
               /\ attempts'[a].maxPoints = attempts[a].maxPoints]_vars

\* C6: a start is refused with MAX_ATTEMPTS_REACHED exactly when the user's
\* completed attempts have reached maxAttempts, so that no (user, quiz) pair
\* ever has more completed attempts than maxAttempts.
CompletedWithinLimit ==
  /\ \A u \in Users : CountCompleted(u) <= quiz.settings.maxAttempts
  /\ \A r \in ReqIds :
       (req[r].kind = "start" /\ req[r].resp.code = "MAX_ATTEMPTS_REACHED")
         => ~Eligible(req[r].user)

WellFormed(answers) == \E S \in SUBSET QuestionIds : answers = AnswersFor(S)

\* C8: of two submits on the same in-progress attempt, under every
\* interleaving, exactly one succeeds and the other is answered
\* ATTEMPT_NOT_FOUND.
SecondSubmitNotFound ==
  \A r1, r2 \in ReqIds :
    (/\ r1 < r2
     /\ req[r1].kind = "submit" /\ req[r2].kind = "submit"
     /\ req[r1].attemptId = req[r2].attemptId /\ req[r1].user = req[r2].user
     /\ req[r1].target = "in-progress"
     /\ WellFormed(req[r1].answers) /\ WellFormed(req[r2].answers)
     /\ req[r1].pc = "done" /\ req[r2].pc = "done")
      => \/ req[r1].resp.code = "OK" /\ req[r2].resp.code = "ATTEMPT_NOT_FOUND"
         \/ req[r2].resp.code = "OK" /\ req[r1].resp.code = "ATTEMPT_NOT_FOUND"

\* C9: once an attempt is completed, abandoned or timed-out, no operation
\* (the submit route, complete(), abandon()) changes its status again.
TerminalStatusIsFinal ==
  [][\A a \in AttemptIds :
       attempts[a].status \in {"completed", "abandoned", "timed-out"}
         => attempts'[a].status = attempts[a].status]_vars

\* C10: on a completed attempt each answer earns the points of its question
\* when correct and 0 otherwise, totalPoints is their sum, maxPoints is the
\* total of the quiz, and score is 100 * totalPoints / maxPoints rounded to
\* the nearest integer.
ScoreIsRoundedPercentage ==
  \A a \in AttemptIds :
    attempts[a].status = "completed"
      => /\ \A i \in 1..Len(attempts[a].answers) :
              LET answer == attempts[a].answers[i]
              IN answer.points = IF answer.isCorrect
                                 THEN quiz.questions[answer.questionId].points ELSE 0
         /\ attempts[a].totalPoints = PointsOf(attempts[a].answers)
         /\ attempts[a].maxPoints = totalPoints(quiz)
         /\ attempts[a].score = RoundDiv(100 * attempts[a].totalPoints, attempts[a].maxPoints)

\* C11: a submit of zero answers to an attempt on a quiz without questions
\* (maxPoints 0) succeeds with score 0 and leaves the attempt completed; it
\* produces no error and no undefined score.
EmptyQuizScoresZero ==
  \A r \in ReqIds :
    (/\ req[r].kind = "submit" /\ req[r].target = "in-progress"
     /\ quiz.questions = <<>> /\ req[r].answers = <<>>
     /\ req[r].pc = "done")
      => /\ req[r].resp.code = "OK"
         /\ req[r].resp.score = 0
         /\ attempts[req[r].attemptId].status = "completed"
         /\ attempts[req[r].attemptId].score = 0

\* What the grading rules ask of an answer to a question
ShouldBeCorrect(question, userAnswer) ==
  CASE question.type = "multiple-choice" ->
         \E i \in 1..Len(question.options) :
           question.options[i].isCorrect /\ question.options[i].text = userAnswer
    [] question.type \in {"true-false", "short-answer"} ->
         toLowerCase(question.correctAnswer) = toLowerCase(userAnswer)
    [] OTHER -> FALSE

\* C12: on a submitted attempt a multiple-choice answer is marked correct
\* exactly when its text is the text of the option flagged isCorrect, and a
\* true-false or short-answer answer exactly when it equals correctAnswer
\* without regard to case.
GradedByQuestionType ==
  \A a \in AttemptIds :
    attempts[a].status = "completed"
      => \A i \in 1..Len(attempts[a].answers) :
           LET answer == attempts[a].answers[i]
           IN answer.isCorrect
                = ShouldBeCorrect(quiz.questions[answer.questionId], answer.userAnswer)

\* C13: for every completed attempt the pass flag equals (percentage score >=
\* the quiz's passing score), for personal attempts (passed, score,
\* settings.passingScore) and for community attempts (isPassed, percentage,
\* passingScore), whatever the passing score in 0..100, 0 included.
PassFlagFollowsPassingScore ==
  /\ \A a \in AttemptIds :
       attempts[a].status = "completed"
         => attempts[a].passed = (attempts[a].score >= quiz.settings.passingScore)
  /\ \A a \in CommunityAttemptIds :
       communityAttempts[a].status = "completed"
         => communityAttempts[a].isPassed
              = (communityAttempts[a].percentage >= communityQuiz.passingScore)

\* A submission answered with a failure because an answer names a question
\* that is not in the quiz, or because the quiz is no longer in the collection
RejectedForQuiz(r) ==
  /\ req[r].kind = "submit" /\ req[r].pc = "done"
  /\ \/ req[r].error = "Error"
     \/ req[r].resp.code = "QUIZ_NOT_FOUND"
     \/ req[r].error = "DocumentNotFoundError" /\ req[r].at = "saveQuiz"

SubmitSucceeds(r) ==
  /\ req[r].kind = "submit" /\ req[r].pc # "done"
  /\ req'[r].pc = "done" /\ req'[r].resp.code = "OK"
  /\ \A o \in ReqIds \ {r} : req[o].kind = "submit" => req[o].pc = "done"

\* C15: after every successful submission analytics.totalAttempts of the quiz
\* equals the number of completed attempts stored for the quiz, also when an
\* earlier submission stopped between attempt.save() and quiz.save().
TotalAttemptsCountsCompleted ==
  [][\A r \in ReqIds :
       SubmitSucceeds(r)
         => quiz'.analytics.totalAttempts
              = Cardinality({a \in DOMAIN attempts' : attempts'[a].status = "completed"})]_vars

\* C16: after a successful submission analytics.passRate of the quiz equals
\* round(100 * completed attempts that passed / completed attempts).
PassRateOfCompleted ==
  [][\A r \in ReqIds :
       SubmitSucceeds(r)
         => LET completed == {a \in DOMAIN attempts' : attempts'[a].status = "completed"}
                passed    == {a \in completed : attempts'[a].passed}
            IN quiz'.analytics.passRate
                 = JsPercent(Cardinality(passed), Cardinality(completed))]_vars

\* The summary call of the submission r has failed
SummaryFailed(r) ==
  /\ req[r].kind = "submit" /\ ~req[r].quizSummary
  /\ \/ req[r].pc \in {"findContent", "saveContent"}
     \/ req[r].pc = "done" /\ req[r].resp.code = "OK"
     \/ req[r].pc = "done" /\ req[r].at \in {"summary", "findContent", "saveContent"}

\* C17: when the summary call fails the attempt stays stored as completed
\* with its answers, score and pass flag, and the request is answered with
\* success, the score and pass flag of the attempt, and no summary.
SummaryFailureStillSucceeds ==
  \A r \in ReqIds :
    SummaryFailed(r)
      => LET stored == attempts[req[r].attemptId]
         IN /\ stored.status = "completed"
            /\ stored.answers = req[r].attempt.answers
            /\ stored.score = Score(PointsOf(stored.answers), stored.maxPoints)
            /\ stored.passed = Passed(stored.score)
            /\ req[r].pc = "done"
                 => /\ req[r].resp.code = "OK"
                    /\ req[r].resp.score = stored.score
                    /\ req[r].resp.passed = stored.passed
                    /\ ~req[r].resp.aiSummary

\* A submission whose summary call failed has been answered.
SummaryFailedAndAnswered ==
  \E r \in ReqIds :
    /\ SummaryFailed(r) /\ req[r].pc = "done"
    /\ attempts[req[r].attemptId].passed

\* C18: the response of a submission does not wait for the summary call:
\* while the call is under way the caller has its answer already.
ResponseDoesNotAwaitSummary ==
  \A r \in ReqIds :
    (req[r].kind = "submit" /\ req[r].pc = "summary") => req[r].resp.code = "OK"

\* The attempts of user u on the community quiz
AttemptsOf(u) == {a \in CommunityAttemptIds : communityAttempts[a].userId = u}

ScoredAttemptsOf(u) ==
  {a \in AttemptsOf(u) : communityAttempts[a].status \in {"completed", "submitted"}}

\* C20: only attempts with a recorded score contribute to the leaderboard:
\* every entry belongs to a user with such an attempt, and its score,
\* timeTaken and attempts count are those of the user's scored attempts, as
\* if the attempts in progress were not there.
LeaderboardCountsScoredAttempts ==
  [][(leaderboardReq.pc = "aggregate" /\ leaderboardReq'.resp.code = "OK")
       => LET board == leaderboardReq'.resp.data
          IN \A i \in DOMAIN board :
               LET scored == ScoredAttemptsOf(board[i].userId)
               IN /\ scored # {}
                  /\ board[i].score = Max({communityAttempts[a].score : a \in scored})
                  /\ board[i].timeTaken
                       = Min({communityAttempts[a].totalTimeTaken : a \in scored})
                  /\ board[i].attempts = Cardinality(scored)]_vars

\* C21: an attempt on a private community quiz is created only for the owner
\* of the quiz or for a user in its allowedUsers; the start of any other
\* member is refused and creates no attempt.
PrivateQuizAttemptsAreAllowed ==
  communityQuiz.type = "private"
    => \A a \in CommunityAttemptIds :
         \/ communityAttempts[a].userId = communityQuiz.userId
         \/ communityAttempts[a].userId \in communityQuiz.allowedUsers

\* The attempts of user u on the community quiz that are in progress
CommunityInProgress(u) ==
  {a \in CommunityAttemptIds : /\ communityAttempts[a].userId = u
                               /\ communityAttempts[a].status = "in-progress"}

\* C22: after any sequence or interleaving of community start requests a
\* user has at most one in-progress attempt on the community quiz, and no
\* start is answered with a duplicate-key error.
CommunityAtMostOneInProgress ==
  /\ \A u \in Users : Cardinality(CommunityInProgress(u)) <= 1
  /\ \A r \in CommunityReqIds :
       communityReq[r].kind = "start"
         => communityReq[r].resp.code # errorHandler("E11000")

\* C23: a start is refused with 'Maximum attempts reached' only when the
\* user has maxAttempts completed attempts; attempts that were started and
\* not completed do not count.
OnlyCompletedAttemptsCount ==
  \A r \in CommunityReqIds :
    (communityReq[r].kind = "start"
     /\ communityReq[r].resp.code = "MAX_ATTEMPTS_REACHED")
      => Cardinality({a \in CommunityAttemptIds :
                        /\ communityAttempts[a].userId = communityReq[r].user
                        /\ communityAttempts[a].status = "completed"})
           >= communityQuiz.maxAttempts

\* C24: a start request that arrives while the quiz is not both published
\* and active is answered QUIZ_NOT_FOUND (and so creates or resumes nothing).
StartNeedsPublishedActiveQuiz ==
  [][\A r \in ReqIds :
       (/\ req[r].kind = "none"
        /\ req'[r].kind = "start"
        /\ (quiz.status # "published" \/ ~quiz.isActive))
         => req'[r].resp.code = "QUIZ_NOT_FOUND"]_vars

\* The submissions that were answered with success
Succeeded == {r \in ReqIds : /\ req[r].kind = "submit" /\ req[r].pc = "done"
                             /\ req[r].resp.code = "OK"}

\* C25: once the submissions under way are answered, the content's quiz
\* history holds at most 10 entries, one for each of the last successful
\* submissions, bestScore is the highest score of the successful submissions
\* and isPassed tells whether one of them passed.
QuizHistoryFollowsSubmissions ==
  (/\ content.exists
   /\ \A r \in ReqIds : req[r].kind = "submit" => req[r].pc = "done")
    => LET h == content.quizHistory
       IN /\ Len(h.attempts) <= HistoryLimit
          /\ Len(h.attempts) = Min({Cardinality(Succeeded), HistoryLimit})
          /\ Cardinality(Succeeded) <= HistoryLimit
               => {<<h.attempts[i].attemptId, h.attempts[i].score>> :
                     i \in 1..Len(h.attempts)}
                    = {<<req[r].resp.attemptId, req[r].resp.score>> : r \in Succeeded}
          /\ \A r \in Succeeded : h.bestScore >= req[r].resp.score
          /\ h.bestScore > 0 => \E r \in Succeeded : h.bestScore = req[r].resp.score
          /\ h.isPassed <=> \E r \in Succeeded : req[r].resp.passed

\* What the start route would answer user u in this state: the in-progress
\* attempt is resumed when there is one, else the completed attempts are
\* counted against maxAttempts.
NextStartRejected(u) ==
  /\ FindQuiz(u)
  /\ InProgress(u) = {}
  /\ AttemptLimitReached(CountCompleted(u))

\* C26: the canRetake of a successful submission is true exactly when a
\* start of the same user that follows it would not be answered
\* MAX_ATTEMPTS_REACHED (allowRetakes being true).
CanRetakeAgreesWithStart ==
  [][\A r \in ReqIds :
       (/\ req[r].kind = "submit" /\ req[r].pc # "done"
        /\ req'[r].pc = "done" /\ req'[r].resp.code = "OK"
        /\ quiz.settings.allowRetakes)
         => (req'[r].resp.canRetake <=> ~NextStartRejected(req[r].user)')]_vars

\* C27: every attempt stored by an accepted submission has
\* totalPoints <= maxPoints, a score within 0..100 and no more scored
\* answers than the quiz has questions.
StoredAttemptWithinQuiz ==
  \A a \in AttemptIds :
    attempts[a].status = "completed"
      => /\ attempts[a].totalPoints <= attempts[a].maxPoints
         /\ attempts[a].score >= 0 /\ attempts[a].score <= 100
         /\ Len(attempts[a].answers) <= Len(quiz.questions)

\* C28: a join request of a user who has no active membership in the
\* community is answered with success; so a user who joined and left can
\* join again.
JoinSucceedsWithoutMembership ==
  [][\A r \in MemberReqIds :
       (/\ memberReq[r].kind = "join" /\ memberReq[r].pc # "done"
        /\ memberReq'[r].pc = "done"
        /\ community.exists
        /\ ~membership(memberReq[r].user))
         => memberReq'[r].code = "OK"]_vars

\* C29: memberCount is never below 0, and once the join and leave requests
\* are answered it is the number of active CommunityMember documents.
MemberCountIsActiveMembers ==
  /\ community.memberCount >= 0
  /\ (\A r \in MemberReqIds : memberReq[r].pc \in {"idle", "done"})
       => community.memberCount = Cardinality(communityMembers)

\* C30: under every interleaving of generate requests a user has at most one
\* active quiz for the content, and a request whose lookup finds one is
\* answered with it, isExisting true, and creates no other.
GenerateIsFindOrCreate ==
  [][/\ \A u \in Users : Cardinality(ActiveQuizzes(u)') <= 1
     /\ \A r \in GenerateReqIds :
          (/\ generateReq[r].pc = "findQuiz"
           /\ generateReq'[r].pc # "findQuiz"
           /\ ActiveQuizzes(generateReq[r].user) # {})
            => /\ generateReq'[r].pc = "done"
               /\ generateReq'[r].isExisting
               /\ generateReq'[r].data \in ActiveQuizzes(generateReq[r].user)
               /\ quizzes' = quizzes]_vars

====
